---------------------------- MODULE Spec2Model ----------------------------
(***************************************************************************)
(* Recipe import pipeline of norish.                                       *)
(*                                                                         *)
(* Spec     : the URL-import orchestrator parseRecipeFromUrl               *)
(*            (src/server/parser/index.ts) with its collaborators, one     *)
(*            step per awaited call.                                       *)
(* SpecDTO  : the two producers of a Recipe DTO, normalizeRecipeFromJson   *)
(*            (JSON-LD) and buildRecipeDTO (Mela / Paprika).               *)
(* SpecSteps: the step parsers of src/server/parser/parsers/steps.ts, each *)
(*            called on its own.                                           *)
(* SpecIngredient: parseIngredientWithDefaults                             *)
(*            (src/lib/grocery-grouping.ts) on one ingredient line.        *)
(* SpecArchive: the archive extractors extractPaprikaRecipes               *)
(*            (src/unnamed/part_009) and parseMelaArchive                  *)
(*            (src/server/importers/mela-parser.ts), one step per entry.   *)
(* SpecVideos: parseVideos (src/unnamed/part_011), a step where a          *)
(*            candidate's download starts and one where it ends.           *)
(* SpecDuration: the duration parsers parseIsoDuration                     *)
(*            (src/lib/grocery-grouping.ts) and parseHumanDurationToMinutes*)
(*            (src/tooling/vitest/vitest.config.ts).                       *)
(***************************************************************************)
EXTENDS Integers, Sequences, FiniteSets, TLC

VARIABLES
    pc,         \* position inside parseRecipeFromUrl
    req,        \* arguments of the call: is the url a video url, forceAI
    cfg,        \* server configuration read by isAIEnabled() etc.
    html,       \* the fetched page (Null before the fetch)
    requireAI,  \* the requireAI argument handed to extractWithAIPreference
    calls,      \* collaborators invoked so far, in order, with their outcome
    result,     \* how the call ended: pending, returned or threw
    dtoIn,      \* SpecDTO: the raw input handed to a DTO producer
    dto,        \* SpecDTO: the DTO it produced
    fnCall,     \* SpecSteps, SpecDuration, SpecIngredient: a call of a pure
                \* function: its name, its argument and what it returned
    archive,    \* SpecArchive: a call of an archive extractor: the entries of
                \* the zip, the loop position, results and warnings so far
    unitsMap,   \* SpecUnits: the unit dictionary object loaded from the server
                \* configuration, which every parser call is handed
    grocery,    \* SpecGrocery: the groceries table, a create request and the
                \* database work it started without awaiting it
    images,     \* SpecImages: the files of uploads/recipes, the recipe_images
                \* table, the gallery uploads under way and the cleanup job
    dnd,        \* SpecDnd: the state of the grocery drag-and-drop hook
                \* that is mounted
    nav,        \* SpecNavbar: the state and refs of useAutoHide and the
                \* timers it has pending
    videoRun    \* SpecVideos: a call of parseVideos: the candidates, the loop
                \* position, the downloads started, the videos so far

vars ==
    <<pc, req, cfg, html, requireAI, calls, result, dtoIn, dto, fnCall, archive,
      videoRun, unitsMap, grocery, images, dnd, nav>>

orchVars == <<pc, req, cfg, html, requireAI, calls, result>>
dtoVars == <<dtoIn, dto>>
fnVars == <<fnCall>>
archiveVars == <<archive>>
videoVars == <<videoRun>>
unitVars == <<unitsMap>>
groceryVars == <<grocery>>
imageVars == <<images>>
dndVars == <<dnd>>
navVars == <<nav>>

\* what the actions of one specification leave alone
exceptOrch == <<dtoVars, fnVars, archiveVars, videoVars, unitVars,
     groceryVars, imageVars, dndVars, navVars>>
exceptDTO == <<orchVars, fnVars, archiveVars, videoVars, unitVars,
     groceryVars, imageVars, dndVars, navVars>>
exceptFn == <<orchVars, dtoVars, archiveVars, videoVars, unitVars,
     groceryVars, imageVars, dndVars, navVars>>
exceptArchive == <<orchVars, dtoVars, fnVars, videoVars, unitVars,
     groceryVars, imageVars, dndVars, navVars>>
exceptVideos == <<orchVars, dtoVars, fnVars, archiveVars, unitVars,
     groceryVars, imageVars, dndVars, navVars>>
exceptUnits == <<orchVars, dtoVars, archiveVars, videoVars, groceryVars,
     imageVars, dndVars, navVars>>
exceptGrocery ==
    <<orchVars, dtoVars, fnVars, archiveVars, videoVars, unitVars,
     imageVars, dndVars, navVars>>
exceptImages ==
    <<orchVars, dtoVars, fnVars, archiveVars, videoVars, unitVars,
      groceryVars, dndVars, navVars>>
exceptDnd ==
    <<orchVars, dtoVars, fnVars, archiveVars, videoVars, unitVars,
      groceryVars, imageVars, navVars>>
exceptNav ==
    <<orchVars, dtoVars, fnVars, archiveVars, videoVars, unitVars,
      groceryVars, imageVars, dndVars>>

(***************************************************************************)
(* Bounds                                                                  *)
(***************************************************************************)
\* longest ingredient / step list of a DTO handed back by a collaborator
MaxItems == 1
\* most content-indicator phrases a page can contain
MaxContentHits == 3
\* most JSON-LD recipe nodes on a page
MaxJsonLdNodes == 1

(***************************************************************************)
(* Error messages of src/server/parser/index.ts                            *)
(***************************************************************************)
ErrAIDisabled == "AI-only import requested but AI is not enabled."
ErrVideoDisabled == "Video recipe parsing is not enabled."
ErrCannotFetch == "Cannot fetch recipe page."
ErrNotRecipe == "Page does not appear to contain a recipe."
ErrAIFailed == "AI extraction failed"
ErrCannotParse == "Cannot parse recipe."
\* processVideoRecipe wraps every failure of the video pipeline
ErrVideoFailed == "Failed to process video recipe"
\* an error raised inside a collaborator (network, model, parser crash)
ErrCollaborator == "collaborator error"

(***************************************************************************)
(* Values                                                                  *)
(***************************************************************************)
ItemLists == UNION {[1..n -> {"item"}] : n \in 0..MaxItems}

\* A DTO as a collaborator hands it back; `by` is the identity of the
\* extraction path that built the object.  The normalizers build both lists
\* with Array.map, so they are always arrays, possibly empty.
DTOsBy(path) ==
    [by : {path}, recipeIngredients : ItemLists, steps : ItemLists]

\* null / undefined where a DTO is expected
NullRecipe ==
    [by |-> "null", recipeIngredients |-> <<>>, steps |-> <<>>]

\* what fetchViaPlaywright resolves to: the page, or an empty string
Pages ==
    [empty : {FALSE},
     hasSchema : BOOLEAN,
     contentHits : 0..MaxContentHits,
     jsonLdNodes : 0..MaxJsonLdNodes]

EmptyPage ==
    [empty |-> TRUE, hasSchema |-> FALSE, contentHits |-> 0, jsonLdNodes |-> 0]

Requests == [isVideo : BOOLEAN, forceAI : {"true", "false", "undefined"}]

Configs == [aiEnabled : BOOLEAN, videoEnabled : BOOLEAN, alwaysUseAI : BOOLEAN]

Returned(recipe, usedAI) ==
    [status |-> "returned", recipe |-> recipe, usedAI |-> usedAI, error |-> ""]

Threw(msg) ==
    [status |-> "threw", recipe |-> NullRecipe, usedAI |-> FALSE, error |-> msg]

Pending ==
    [status |-> "pending", recipe |-> NullRecipe, usedAI |-> FALSE, error |-> ""]

\* one entry of the trace of collaborator invocations
Call(who, outcome, recipe) == [who |-> who, outcome |-> outcome, dto |-> recipe]

\* the collaborators that extract a recipe from a fetched page
Extractors == {"jsonld", "microdata", "ai_jsonld", "ai_html"}

(***************************************************************************)
(* Pure helpers of src/server/parser/index.ts                              *)
(***************************************************************************)
\* a validity check that accepts a DTO with ingredients or steps
hasIngredientsOrSteps(recipe) ==
    /\ recipe # NullRecipe
    /\ (Len(recipe.recipeIngredients) > 0 \/ Len(recipe.steps) > 0)

hasValidRecipeData(recipe) ==
    /\ recipe # NullRecipe
    /\ Len(recipe.recipeIngredients) > 0
    /\ Len(recipe.steps) > 0

\* a heuristic that is content with one content indicator
isPageLikelyRecipeOneHit(page) ==
    page.hasSchema \/ page.contentHits >= 1

isPageLikelyRecipe(page) ==
    page.hasSchema \/ page.contentHits >= 2

\* a mode choice that reads the configuration and ignores forceAI
useAIOnlyConfigOnly(forceAI, alwaysUseAI) == alwaysUseAI

\* forceAI ?? (await shouldAlwaysUseAI())
useAIOnly(forceAI, alwaysUseAI) ==
    IF forceAI = "undefined" THEN alwaysUseAI ELSE forceAI = "true"

\* an AI preference that always starts with the full HTML
firstAIInputHtml(page) == "tryExtractWithAI_html"

\* extractWithAIPreference: which input the first AI attempt gets
firstAIInput(page) ==
    IF page.jsonLdNodes > 0 THEN "tryExtractWithAI_jsonld" ELSE "tryExtractWithAI_html"

(***************************************************************************)
(* Collaborators.  Each takes what happened inside it (`o`, chosen by the  *)
(* environment) and yields what its caller sees: [threw, value].           *)
(***************************************************************************)
Outcomes(path) ==
    {[kind |-> "dto", dto |-> d] : d \in DTOsBy(path)}
        \cup {[kind |-> "none", dto |-> NullRecipe],
              [kind |-> "error", dto |-> NullRecipe]}

Value(v) == [threw |-> FALSE, value |-> v]
Raise == [threw |-> TRUE, value |-> NullRecipe]

\* tryExtractRecipeFromJsonLd / tryExtractRecipeFromMicrodata: a DTO, or null
\* when the page has no usable structured data or parsing it failed.
tryExtractStructured(o) ==
    IF o.kind = "dto" THEN Value(o.dto) ELSE Value(NullRecipe)

\* extractRecipeWithAI: the AI must be enabled; everything else runs inside
\* try/catch, so a thrown error becomes an aiError result like a rejected
\* validation does.  AIResult is [success, data].
AIOutcomes ==
    {[kind |-> "dto", dto |-> d] : d \in DTOsBy("ai")}
        \cup {[kind |-> k, dto |-> NullRecipe] :
                k \in {"invalid", "unnormalizable", "error"}}

aiSuccess(data) == [success |-> TRUE, data |-> data]
aiError == [success |-> FALSE, data |-> NullRecipe]

\* extractRecipeWithAI without its try/catch
extractRecipeWithAINoCatch(aiEnabled, o) ==
    IF ~aiEnabled THEN Value(aiError)
    ELSE IF o.kind = "dto" THEN Value(aiSuccess(o.dto))
    ELSE IF o.kind = "error" THEN Raise
    ELSE Value(aiError)

extractRecipeWithAI(aiEnabled, o) ==
    IF ~aiEnabled THEN Value(aiError)
    ELSE IF o.kind = "dto" THEN Value(aiSuccess(o.dto))
    ELSE Value(aiError)

\* a video guard that sends a video url to the page fetch when video parsing
\* is disabled
tryHandleVideoUrlFallThrough(isVideo, videoEnabled) ==
    IF isVideo /\ videoEnabled THEN "processVideoRecipe" ELSE "fetchViaPlaywright"

\* tryHandleVideoUrl before the pipeline is called: null for a url that is no
\* video url (the page is fetched next), an error when video parsing is
\* disabled, else the video pipeline.
tryHandleVideoUrl(isVideo, videoEnabled) ==
    IF ~isVideo THEN "fetchViaPlaywright"
    ELSE IF ~videoEnabled THEN "throw"
    ELSE "processVideoRecipe"

\* isAIEnabled(): a read of the server configuration
isAIEnabled(c) == c.aiEnabled

\* a guard that forgets requireAI
tryExtractWithAIGuardLenient(enabled, required) ==
    IF ~enabled THEN "null" ELSE "call"

\* tryExtractWithAI before the AI is called: with the AI disabled it throws
\* when the AI is required and resolves to null otherwise
tryExtractWithAIGuard(enabled, required) ==
    IF ~enabled
      THEN IF required THEN "throw" ELSE "null"
      ELSE "call"

\* processVideoRecipe: its own guard, then the pipeline inside try/catch,
\* every failure rethrown as "Failed to process video recipe: ..."
processVideoRecipe(videoEnabled, o) ==
    IF ~videoEnabled
      THEN [threw |-> TRUE, value |-> NullRecipe, error |-> ErrVideoDisabled]
      ELSE IF o.kind = "dto"
             THEN [threw |-> FALSE, value |-> o.dto, error |-> ""]
             ELSE [threw |-> TRUE, value |-> NullRecipe, error |-> ErrVideoFailed]

\* tryHandleVideoUrl: return { recipe, usedAI: true }
videoResult(recipe) == Returned(recipe, TRUE)

\* a structured result flagged as AI output
structuredResultUsedAI(recipe) == Returned(recipe, TRUE)

\* parseRecipeFromUrl: if (structured) return { recipe: structured, usedAI: false }
structuredResult(recipe) == Returned(recipe, FALSE)

\* tryExtractWithAI: if (result.success) return result.data; ... return null
tryExtractWithAIValue(aiResult) ==
    IF aiResult.success THEN aiResult.data ELSE NullRecipe

\* a fallback end that hands back whatever the AI path resolved to
aiResultSilent(recipe, required) ==
    IF required
      THEN IF recipe = NullRecipe THEN Threw(ErrAIFailed) ELSE Returned(recipe, TRUE)
      ELSE Returned(recipe, TRUE)

\* parseRecipeFromUrl after extractWithAIPreference resolved to `recipe`
aiResult(recipe, required) ==
    IF required
      THEN IF recipe = NullRecipe THEN Threw(ErrAIFailed) ELSE Returned(recipe, TRUE)
      ELSE IF recipe # NullRecipe THEN Returned(recipe, TRUE) ELSE Threw(ErrCannotParse)

\* extractWithAIPreference after tryExtractWithAI(input) resolved to `value`:
\* a recipe from the JSON-LD input is returned, otherwise the full HTML is
\* tried; the value of the HTML attempt is returned as it is.
afterTryExtractWithAI(input, value) ==
    IF input = "jsonld" /\ value = NullRecipe
      THEN pc' = "tryExtractWithAI_html" /\ UNCHANGED result
      ELSE result' = aiResult(value, requireAI) /\ pc' = "done"

\* no DTO producer has run
NoInput == [producer |-> "none"]
NoCall == [fn |-> "none"]
\* no upload under way
NoUpload ==
    [pc |-> "idle", recipeId |-> "", bytes |-> "", currentCount |-> 0,
     url |-> <<>>]
\* the cleanup job is not running
NoCleanup ==
    [pc |-> "idle", existingRecipeIds |-> {}, referencedFiles |-> {},
     imageFiles |-> {}, deleted |-> 0]
MaxUploads == 2
\* the maximum of gallery images of a recipe, scaled down
MAX_RECIPE_IMAGES == 2

\* recipe r1 is in the database, recipe r2 is still being written in the
\* form; image files are named by the hash of their bytes
RecipeIds == {"r1", "r2"}
ImageBytes == {"h1", "h2"}
existingRecipes == {"r1"}

\* uploads/recipes holds the cover of r1, which recipes.image names, its
\* first gallery image, which recipe_images.image names, and a file left
\* over from a gallery image that was deleted
NoImages ==
    [files |-> {<<"r1", "cover">>, <<"r1", "g0">>, <<"r1", "old">>},
     recipeImage |-> {<<"r1", "cover">>},
     recipeImages |-> <<[recipeId |-> "r1", image |-> "g0", order |-> 0]>>,
     uploads |-> [u \in 1..MaxUploads |-> NoUpload],
     cleanup |-> NoCleanup,
     deletedWhileReferenced |-> {}]

\* the groceries of the list, the containers they are shown in (the
\* groceries without a store, then the store s1) and the ids that stand for
\* null and undefined
MaxGroceries == 3
groceryIds == <<"g1", "g2", "g3", "g4", "g5">>
UNSORTED_CONTAINER == "unsorted"
ContainerIds == <<UNSORTED_CONTAINER, "s1">>
NoStore == "null"
NoId == "null"
Undefined == "undefined"

\* getContainerIdForGrocery(grocery)
getContainerIdForGrocery(g) ==
    IF g.storeId = NoStore THEN UNSORTED_CONTAINER ELSE g.storeId

\* buildItemsState(groceries, stores), and buildGroupItemsState for the
\* groups: a list for the unsorted container and for each store, holding the
\* ids of the groceries that are not done; groceries comes in the order of
\* sortOrder, which the sort of each list keeps
buildItemsState(groceries) ==
    [c \in {ContainerIds[k] : k \in 1..Len(ContainerIds)} |->
        LET inC == SelectSeq(groceries,
                       LAMBDA g : ~g.isDone /\ getContainerIdForGrocery(g) = c)
        IN [k \in 1..Len(inC) |-> inC[k].id]]

\* the groceries the list is first shown with
InitialGroceries ==
    [i \in 1..MaxGroceries |->
        [id |-> groceryIds[i],
         storeId |-> IF i % 2 = 1 THEN NoStore ELSE "s1",
         isDone |-> FALSE]]

\* clonedItems.current: null, or the copy made when the drag started
NoClone == [isNull |-> TRUE, items |-> buildItemsState(<<>>)]

\* useGroceryDnd after its first render: nothing is dragged
NoDnd ==
    [hook |-> "useGroceryDnd",
     items |-> buildItemsState(InitialGroceries),
     activeId |-> NoId, overContainerId |-> NoId,
     clonedItems |-> NoClone,
     event |-> [type |-> "mount", hasOver |-> FALSE],
     atStart |-> buildItemsState(InitialGroceries),
     moved |-> FALSE,
     reordered |-> FALSE]

\* scrollTimeout.current: null, the id of a pending timer, or the id of a
\* timer that has fired or was cleared
NoTimer == 0
StaleTimer == -1

\* useAutoHide after its first render and effects: the navbar is shown at
\* the top of a scrollable page, and scroll events are ignored for the
\* first second
NoNav ==
    [isVisible |-> TRUE, scrollY |-> 0, lastScrollY |-> 0,
     scrollTimeout |-> NoTimer, timers |-> <<>>,
     isHovering |-> FALSE, isScrollable |-> TRUE, disabled |-> FALSE,
     ignoring |-> TRUE]
NoGrocery ==
    [phase |-> "idle", before |-> {}, db |-> {}, input |-> <<>>,
     groceriesToUpdate |-> <<>>, groceriesToCreate |-> <<>>, returnIds |-> <<>>,
     pending |-> {}, events |-> <<>>]
\* the unit dictionary of the server configuration (UnitsMap): canonical ID
\* |-> short form, plural, alternate spellings
getUnits ==
    [cup |-> [short |-> "c", plural |-> "cups", alternates |-> {"cupful"}],
     gram |-> [short |-> "g", plural |-> "grams", alternates |-> {}]]
NoArchive ==
    [fn |-> "none", files |-> <<>>, idx |-> 1, results |-> <<>>, warnings |-> <<>>,
     status |-> "idle"]
NoVideoRun ==
    [candidates |-> <<>>, maxVideos |-> 0, i |-> 0, started |-> <<>>,
     inProgress |-> {}, videos |-> <<>>, tempFiles |-> {}, status |-> "idle"]
NoDTO == [by |-> "none", error |-> "", recipeIngredients |-> <<>>, steps |-> <<>>]


(***************************************************************************)
(* parseRecipeFromUrl, one action per awaited call                         *)
(***************************************************************************)
Init ==
    /\ pc = "idle"
    /\ req = [isVideo |-> FALSE, forceAI |-> "undefined"]
    /\ cfg = [aiEnabled |-> FALSE, videoEnabled |-> FALSE, alwaysUseAI |-> FALSE]
    /\ html = EmptyPage
    /\ requireAI = FALSE
    /\ calls = <<>>
    /\ result = Pending
    /\ dtoIn = NoInput
    /\ dto = NoDTO
    /\ fnCall = NoCall
    /\ archive = NoArchive
    /\ videoRun = NoVideoRun
    /\ nav = NoNav
    /\ dnd = NoDnd
    /\ images = NoImages
    /\ grocery = NoGrocery
    /\ unitsMap = getUnits

\* A caller invokes parseRecipeFromUrl(url, recipeId, allergies, forceAI)
\* under some server configuration.
ParseRecipeFromUrl ==
    /\ pc = "idle"
    /\ \E r \in Requests, c \in Configs :
        /\ req' = r
        /\ cfg' = c
    /\ pc' = "tryHandleVideoUrl"
    /\ html' = EmptyPage
    /\ requireAI' = FALSE
    /\ calls' = <<>>
    /\ result' = Pending
    /\ UNCHANGED exceptOrch

Finish(res) ==
    /\ result' = res
    /\ pc' = "done"

\* tryHandleVideoUrl up to the call of processVideoRecipe
TryHandleVideoUrl ==
    /\ pc = "tryHandleVideoUrl"
    /\ LET next == tryHandleVideoUrl(req.isVideo, cfg.videoEnabled) IN
        IF next = "throw"
          THEN Finish(Threw(ErrVideoDisabled))
          ELSE pc' = next /\ UNCHANGED result
    /\ UNCHANGED <<req, cfg, html, requireAI, calls, exceptOrch>>

\* processVideoRecipe resolves to a recipe or rejects; tryHandleVideoUrl
\* logs and rethrows, parseRecipeFromUrl returns the video result.
ProcessVideoRecipe ==
    /\ pc = "processVideoRecipe"
    /\ \E o \in Outcomes("video") \ {[kind |-> "none", dto |-> NullRecipe]} :
        LET r == processVideoRecipe(cfg.videoEnabled, o) IN
        /\ calls' = Append(calls, Call("video", o.kind, o.dto))
        /\ IF r.threw
             THEN Finish(Threw(r.error))
             ELSE Finish(videoResult(r.value))
    /\ UNCHANGED <<req, cfg, html, requireAI, exceptOrch>>

\* const html = await fetchViaPlaywright(url); if (!html) throw
FetchViaPlaywright ==
    /\ pc = "fetchViaPlaywright"
    /\ \E page \in Pages \cup {EmptyPage} :
        /\ html' = page
        /\ calls' = Append(calls, Call("fetch", IF page.empty THEN "none" ELSE "page", NullRecipe))
        /\ IF page.empty
             THEN Finish(Threw(ErrCannotFetch))
             ELSE pc' = "isPageLikelyRecipe" /\ UNCHANGED result
    /\ UNCHANGED <<req, cfg, requireAI, exceptOrch>>

\* the heuristic, then forceAI ?? shouldAlwaysUseAI() picks the chain
IsPageLikelyRecipe ==
    /\ pc = "isPageLikelyRecipe"
    /\ LET likely == isPageLikelyRecipe(html) IN
        /\ calls' = Append(calls,
                Call("heuristic", IF likely THEN "likely" ELSE "unlikely", NullRecipe))
        /\ IF ~likely
             THEN Finish(Threw(ErrNotRecipe)) /\ UNCHANGED requireAI
             ELSE IF useAIOnly(req.forceAI, cfg.alwaysUseAI)
                    THEN /\ requireAI' = TRUE
                         /\ pc' = firstAIInput(html)
                         /\ UNCHANGED result
                    ELSE /\ pc' = "tryExtractRecipeFromJsonLd"
                         /\ UNCHANGED <<requireAI, result>>
    /\ UNCHANGED <<req, cfg, html, exceptOrch>>

\* tryStructuredParsers, first half
TryExtractRecipeFromJsonLd ==
    /\ pc = "tryExtractRecipeFromJsonLd"
    /\ \E o \in Outcomes("jsonld") :
        LET r == tryExtractStructured(o) IN
        /\ calls' = Append(calls, Call("jsonld", o.kind, o.dto))
        /\ IF r.threw
             THEN Finish(Threw(ErrCollaborator))
             ELSE IF hasValidRecipeData(r.value)
                    THEN Finish(structuredResult(r.value))
                    ELSE pc' = "tryExtractRecipeFromMicrodata" /\ UNCHANGED result
    /\ UNCHANGED <<req, cfg, html, requireAI, exceptOrch>>

\* tryStructuredParsers, second half; on null the AI fallback starts
TryExtractRecipeFromMicrodata ==
    /\ pc = "tryExtractRecipeFromMicrodata"
    /\ \E o \in Outcomes("microdata") :
        LET r == tryExtractStructured(o) IN
        /\ calls' = Append(calls, Call("microdata", o.kind, o.dto))
        /\ IF r.threw
             THEN Finish(Threw(ErrCollaborator)) /\ UNCHANGED requireAI
             ELSE IF hasValidRecipeData(r.value)
                    THEN Finish(structuredResult(r.value)) /\ UNCHANGED requireAI
                    ELSE /\ requireAI' = FALSE
                         /\ pc' = firstAIInput(html)
                         /\ UNCHANGED result
    /\ UNCHANGED <<req, cfg, html, exceptOrch>>

\* tryExtractWithAI(input, ..., requireAI) and what its callers
\* (extractWithAIPreference, parseRecipeFromUrl) do with the value
TryExtractWithAI(input) ==
    /\ pc = "tryExtractWithAI_" \o input
    /\ LET guard == tryExtractWithAIGuard(isAIEnabled(cfg), requireAI) IN
       IF guard # "call"
         THEN /\ UNCHANGED calls
              /\ IF guard = "throw"
                   THEN Finish(Threw(ErrAIDisabled))
                   ELSE afterTryExtractWithAI(input, NullRecipe)
         ELSE \E o \in AIOutcomes :
                LET r == extractRecipeWithAI(isAIEnabled(cfg), o) IN
                /\ calls' = Append(calls, Call("ai_" \o input, o.kind, o.dto))
                /\ IF r.threw
                     THEN Finish(Threw(ErrCollaborator))
                     ELSE afterTryExtractWithAI(input, tryExtractWithAIValue(r.value))
    /\ UNCHANGED <<req, cfg, html, requireAI, exceptOrch>>

\* the promise has settled; the next call starts from fresh locals
Reset ==
    /\ pc = "done"
    /\ pc' = "idle"
    /\ req' = [isVideo |-> FALSE, forceAI |-> "undefined"]
    /\ cfg' = [aiEnabled |-> FALSE, videoEnabled |-> FALSE, alwaysUseAI |-> FALSE]
    /\ html' = EmptyPage
    /\ requireAI' = FALSE
    /\ calls' = <<>>
    /\ result' = Pending
    /\ UNCHANGED exceptOrch

Next ==
    \/ ParseRecipeFromUrl
    \/ TryHandleVideoUrl
    \/ ProcessVideoRecipe
    \/ FetchViaPlaywright
    \/ IsPageLikelyRecipe
    \/ TryExtractRecipeFromJsonLd
    \/ TryExtractRecipeFromMicrodata
    \/ TryExtractWithAI("jsonld")
    \/ TryExtractWithAI("html")
    \/ Reset

Spec == Init /\ [][Next]_vars

(***************************************************************************)
(* Strings and JSON values.  A string is a sequence of characters; a       *)
(* character is a one-letter string, or an HTML entity taken as one token. *)
(***************************************************************************)
\* most nodes in a recipeInstructions array
MaxSteps == 3
\* most entries in a recipeIngredient array
MaxIngredients == 2
\* longest ingredients / instructions text of an archive recipe
MaxTextLen == 3

IsSpace(c) == c \in {" ", "\n"}

RECURSIVE trimStart(_)
trimStart(s) ==
    IF s # <<>> /\ IsSpace(Head(s)) THEN trimStart(Tail(s)) ELSE s

RECURSIVE trimEnd(_)
trimEnd(s) ==
    IF s # <<>> /\ IsSpace(s[Len(s)]) THEN trimEnd(SubSeq(s, 1, Len(s) - 1)) ELSE s

\* String.prototype.trim
trim(s) == trimEnd(trimStart(s))

\* String.prototype.toLowerCase
toLowerCase(s) ==
    [i \in DOMAIN s |->
        CASE s[i] = "A" -> "a" [] s[i] = "B" -> "b" [] s[i] = "H" -> "h"
          [] s[i] = "M" -> "m" [] s[i] = "P" -> "p" [] s[i] = "T" -> "t"
          [] s[i] = "Cups" -> "cups" [] s[i] = "G" -> "g"
          [] OTHER -> s[i]]

\* String.prototype.startsWith(prefix), for a one-character prefix
startsWith(s, c) == s # <<>> /\ s[1] = c

\* decode of html-entities: every entity becomes the character it names
decode(s) ==
    [i \in DOMAIN s |-> CASE s[i] = "&#35;" -> "#" [] s[i] = "&amp;" -> "&" [] OTHER -> s[i]]

\* s.split(/\r?\n/)
RECURSIVE split(_, _)
split(s, cur) ==
    IF s = <<>> THEN <<cur>>
    ELSE IF Head(s) = "\n" THEN <<cur>> \o split(Tail(s), <<>>)
    ELSE split(Tail(s), Append(cur, Head(s)))

RECURSIVE SeqFilterNonEmpty(_)
SeqFilterNonEmpty(l) ==
    IF l = <<>> THEN <<>>
    ELSE IF Head(l) # <<>> THEN <<Head(l)>> \o SeqFilterNonEmpty(Tail(l))
    ELSE SeqFilterNonEmpty(Tail(l))

\* does the literal w stand in s at position i
hasPrefixAt(s, i, w) ==
    /\ i + Len(w) - 1 <= Len(s)
    /\ SubSeq(s, i, i + Len(w) - 1) = w

\* \s* from position i: the first position that holds no white space
skipSpaces(s, i) ==
    CHOOSE j \in i..(Len(s) + 1) :
        /\ \A k \in i..(j - 1) : IsSpace(s[k])
        /\ j = Len(s) + 1 \/ ~IsSpace(s[j])

\* JSON values: undefined, a string, an array, an object of the instruction tree
Absent == [kind |-> "undefined"]
Str(s) == [kind |-> "string", str |-> s]
Arr(l) == [kind |-> "array", items |-> l]
Obj(type, name, text, itemListElement, item) ==
    [kind |-> "object", type |-> type, name |-> name, text |-> text,
     itemListElement |-> itemListElement, item |-> item]

\* a number, as against undefined (Absent)
Num(n) == [kind |-> "number", n |-> n]

\* JavaScript truthiness of a JSON value
Truthy(v) ==
    CASE v.kind = "undefined" -> FALSE
      [] v.kind = "string" -> v.str # <<>>
      [] OTHER -> TRUE

(***************************************************************************)
(* src/server/parser/parsers/steps.ts                                      *)
(***************************************************************************)
\* getNodeType: the @type names, lowercased (an array of types is joined)
getNodeType(node) ==
    {CASE t = "HowToStep" -> "howtostep"
       [] t = "HowToSection" -> "howtosection"
       [] t = "HowToDirection" -> "howtodirection"
       [] t = "ListItem" -> "listitem"
       [] OTHER -> t : t \in node.type}

isStepType(type) == type \cap {"howtostep", "howtodirection", "listitem"} # {}

isSectionType(type) == "howtosection" \in type

\* the text or name of a node, or of its nested item, trimmed; <<>> when absent
fieldOf(node, f) ==
    IF node[f].kind = "string" THEN trim(decode(node[f].str))
    ELSE IF node.item.kind = "object" /\ node.item[f].kind = "string"
      THEN trim(decode(node.item[f].str))
    ELSE <<>>

\* extractTextFromNode: "**Name:** Text", else the text, else the name, else
\* null (here <<>>)
extractTextFromNode(node) ==
    LET text == fieldOf(node, "text")
        name == fieldOf(node, "name")
    IN  IF name # <<>> /\ text # <<>>
          THEN <<"*", "*">> \o name \o <<":", "*", "*", " ">> \o text
          ELSE IF text # <<>> THEN text ELSE name

\* collectSteps that pushes a section's heading after the section's children
RECURSIVE collectStepsHeadingLast(_)
RECURSIVE visitAllHeadingLast(_)
visitAllHeadingLast(l) ==
    IF l = <<>> THEN <<>>
    ELSE collectStepsHeadingLast(Head(l)) \o visitAllHeadingLast(Tail(l))

collectStepsHeadingLast(current) ==
    IF ~Truthy(current) THEN <<>>
    ELSE IF current.kind = "string" THEN
        LET str == trim(decode(current.str)) IN
        IF str # <<>> THEN <<str>> ELSE <<>>
    ELSE IF current.kind = "array" THEN visitAllHeadingLast(current.items)
    ELSE
        LET type == getNodeType(current)
            children ==
                (IF Truthy(current.itemListElement)
                   THEN collectStepsHeadingLast(current.itemListElement) ELSE <<>>)
                \o (IF Truthy(current.item)
                      THEN collectStepsHeadingLast(current.item) ELSE <<>>)
        IN  IF isSectionType(type)
              THEN LET sectionName ==
                          IF current.name.kind = "string"
                            THEN trim(decode(current.name.str)) ELSE <<>>
                   IN  children
                       \o (IF sectionName # <<>>
                             THEN <<(<<"#", " ">> \o sectionName)>> ELSE <<>>)
              ELSE LET text == extractTextFromNode(current) IN
                   (IF /\ text # <<>>
                       /\ \/ isStepType(type)
                          \/ ~Truthy(current.itemListElement) /\ ~Truthy(current.item)
                      THEN <<text>> ELSE <<>>)
                   \o children

RECURSIVE collectSteps(_)
RECURSIVE visitAll(_)

\* current.forEach(visit)
visitAll(l) ==
    IF l = <<>> THEN <<>> ELSE collectSteps(Head(l)) \o visitAll(Tail(l))

\* collectSteps: the strings visit() pushes for `current`, in order
collectSteps(current) ==
    IF ~Truthy(current) THEN <<>>
    ELSE IF current.kind = "string" THEN
        LET str == trim(decode(current.str)) IN
        IF str # <<>> THEN <<str>> ELSE <<>>
    ELSE IF current.kind = "array" THEN visitAll(current.items)
    ELSE
        LET type == getNodeType(current)
            children ==
                (IF Truthy(current.itemListElement)
                   THEN collectSteps(current.itemListElement) ELSE <<>>)
                \o (IF Truthy(current.item) THEN collectSteps(current.item) ELSE <<>>)
        IN  IF isSectionType(type)
              THEN LET sectionName ==
                          IF current.name.kind = "string"
                            THEN trim(decode(current.name.str)) ELSE <<>>
                   IN  (IF sectionName # <<>>
                          THEN <<(<<"#", " ">> \o sectionName)>> ELSE <<>>)
                       \o children
              ELSE LET text == extractTextFromNode(current) IN
                   (IF /\ text # <<>>
                       /\ \/ isStepType(type)
                          \/ ~Truthy(current.itemListElement) /\ ~Truthy(current.item)
                      THEN <<text>> ELSE <<>>)
                   \o children

\* deduplication that forgets a text when it drops a repeat of it
RECURSIVE dedupFromForgetOnDrop(_, _)
dedupFromForgetOnDrop(rawSteps, seenSteps) ==
    IF rawSteps = <<>> THEN <<>>
    ELSE LET st == Head(rawSteps)
             trimmed == trim(st)
             key == toLowerCase(trimmed)
         IN  IF trimmed = <<>> THEN dedupFromForgetOnDrop(Tail(rawSteps), seenSteps)
             ELSE IF startsWith(trimmed, "#")
               THEN <<st>> \o dedupFromForgetOnDrop(Tail(rawSteps), seenSteps)
             ELSE IF key \in seenSteps
               THEN dedupFromForgetOnDrop(Tail(rawSteps), seenSteps \ {key})
             ELSE <<st>> \o dedupFromForgetOnDrop(Tail(rawSteps), seenSteps \cup {key})

\* deduplication without the heading rule
RECURSIVE dedupFromHeadingsToo(_, _)
dedupFromHeadingsToo(rawSteps, seenSteps) ==
    IF rawSteps = <<>> THEN <<>>
    ELSE LET st == Head(rawSteps)
             trimmed == trim(st)
             key == toLowerCase(trimmed)
         IN  IF trimmed = <<>> THEN dedupFromHeadingsToo(Tail(rawSteps), seenSteps)
             ELSE IF key \in seenSteps THEN dedupFromHeadingsToo(Tail(rawSteps), seenSteps)
             ELSE <<st>> \o dedupFromHeadingsToo(Tail(rawSteps), seenSteps \cup {key})

\* deduplication whose key is not lowercased
RECURSIVE dedupFromCaseSensitive(_, _)
dedupFromCaseSensitive(rawSteps, seenSteps) ==
    IF rawSteps = <<>> THEN <<>>
    ELSE LET st == Head(rawSteps)
             trimmed == trim(st)
             key == trimmed
         IN  IF trimmed = <<>> THEN dedupFromCaseSensitive(Tail(rawSteps), seenSteps)
             ELSE IF startsWith(trimmed, "#")
               THEN <<st>> \o dedupFromCaseSensitive(Tail(rawSteps), seenSteps)
             ELSE IF key \in seenSteps THEN dedupFromCaseSensitive(Tail(rawSteps), seenSteps)
             ELSE <<st>> \o dedupFromCaseSensitive(Tail(rawSteps), seenSteps \cup {key})

\* rawSteps.filter(...) with the seenSteps set threaded through
RECURSIVE dedupFrom(_, _)
dedupFrom(rawSteps, seenSteps) ==
    IF rawSteps = <<>> THEN <<>>
    ELSE LET st == Head(rawSteps)
             trimmed == trim(st)
             key == toLowerCase(trimmed)
         IN  IF trimmed = <<>> THEN dedupFrom(Tail(rawSteps), seenSteps)
             ELSE IF startsWith(trimmed, "#")
               THEN <<st>> \o dedupFrom(Tail(rawSteps), seenSteps)
             ELSE IF key \in seenSteps THEN dedupFrom(Tail(rawSteps), seenSteps)
             ELSE <<st>> \o dedupFrom(Tail(rawSteps), seenSteps \cup {key})

deduplicateSteps(rawSteps) == dedupFrom(rawSteps, {})

\* parseSteps that numbers the steps as buildRecipeDTO does, order: i
parseStepsFromZero(recipeInstructions) ==
    LET deduplicated == deduplicateSteps(collectSteps(recipeInstructions)) IN
    [i \in 1..Len(deduplicated) |-> [step |-> deduplicated[i], order |-> i - 1]]

\* parseSteps: collect, deduplicate, then order: i + 1
parseSteps(recipeInstructions) ==
    LET deduplicated == deduplicateSteps(collectSteps(recipeInstructions)) IN
    [i \in 1..Len(deduplicated) |-> [step |-> deduplicated[i], order |-> i]]

(***************************************************************************)
(* Ingredients: src/server/parser/parsers/index.ts (parseIngredients) and  *)
(* src/lib/grocery-grouping.ts (parseIngredientWithDefaults)               *)
(***************************************************************************)
\* normalizeIngredientSource: an array's entries decoded and the empty ones
\* dropped, a single string as one entry, anything else as none
normalizeIngredientSource(ingSource) ==
    IF ingSource.kind = "array"
      THEN SeqFilterNonEmpty(
              [i \in DOMAIN ingSource.items |->
                  IF ingSource.items[i].kind = "string"
                    THEN decode(ingSource.items[i].str) ELSE <<>>])
    ELSE IF ingSource.kind = "string" THEN <<decode(ingSource.str)>>
    ELSE <<>>

\* In an ingredient line a word or a numeral is one token of the string,
\* as an HTML entity is; white space and punctuation stay single characters.

\* null, a number, a unit ID
Null == [kind |-> "null"]
Id(key) == [kind |-> "id", id |-> key]

\* every spelling of the unit `key`
spellingsOf(units, key) ==
    {key, units[key].short, units[key].plural} \cup units[key].alternates

\* allUnits of parseIngredientWithDefaults: every spelling of every unit
allUnits(units) == UNION {spellingsOf(units, key) : key \in DOMAIN units}

\* \d+(?:[.,]\d+)?
IsNumeral(a) == a \in {"0", "1", "2", "3", "1.5", "1,5"}

\* a token with a word character at both ends (for \b)
IsWordToken(a) == ~IsSpace(a) /\ a # ","

\* numericQuantity of the package, counted in tenths so that 1.5 is a whole
\* number; it does not read a decimal comma
IsQuantity(a) == a \in {"0", "1", "2", "3", "1.5"}
numericQuantity(a) ==
    CASE a = "0" -> 0 [] a = "1" -> 10 [] a = "2" -> 20 [] a = "3" -> 30
      [] a = "1.5" -> 15

\* the package's lookup of a word among the known units: the ID of the unit
\* that has the word, written as it is, among its spellings
unitOfMeasureID(units, word) ==
    IF \E key \in DOMAIN units : word \in spellingsOf(units, key)
      THEN Id(CHOOSE key \in DOMAIN units : word \in spellingsOf(units, key))
      ELSE Null

\* the package on one line: a quantity is read at the start of the line
\* only, a unit right after it only, the rest is the description
parseLine(seg, units) ==
    IF IsQuantity(seg[1])
      THEN LET rest == trimStart(Tail(seg))
               id == IF rest = <<>> THEN Null ELSE unitOfMeasureID(units, rest[1])
           IN  IF id # Null
                 THEN [quantity |-> Num(numericQuantity(seg[1])),
                       unitOfMeasure |-> Id(rest[1]), unitOfMeasureID |-> id,
                       description |-> trimStart(Tail(rest))]
                 ELSE [quantity |-> Num(numericQuantity(seg[1])),
                       unitOfMeasure |-> Null, unitOfMeasureID |-> Null,
                       description |-> rest]
      ELSE [quantity |-> Null, unitOfMeasure |-> Null, unitOfMeasureID |-> Null,
            description |-> seg]

\* parseIngredient of the parse-ingredient package (additionalUOMs: units):
\* one entry per non-empty line of the text it is given
parseIngredient(line, units) ==
    LET segs == SeqFilterNonEmpty([i \in DOMAIN split(line, <<>>) |->
                                      trim(split(line, <<>>)[i])])
    IN  [i \in DOMAIN segs |-> parseLine(segs[i], units)]

\* !parsed[0]?.quantity
noQuantity(parsed) ==
    \/ parsed = <<>>
    \/ parsed[1].quantity = Null
    \/ parsed[1].quantity = Num(0)

\* line.replace(/(\d),(\d)/g, "$1.$2")
normalizeDecimalComma(line) ==
    [i \in DOMAIN line |-> IF line[i] = "1,5" THEN "1.5" ELSE line[i]]

\* normalizedLine.match(regex) for \b(\d+(?:[.,]\d+)?)\s*(unit|...)\b with
\* the i flag: the leftmost numeral that has a spelling of allUnits after it.
\* Every spelling is one token here, so the order of the alternatives
\* (longest first) decides nothing.
unitMatch(line, units) ==
    LET spellings == {toLowerCase(<<u>>)[1] : u \in allUnits(units)}
        matchesAt(i) ==
            /\ IsNumeral(line[i])
            /\ i = 1 \/ ~IsWordToken(line[i - 1])
            /\ LET u == skipSpaces(line, i + 1) IN
               /\ u <= Len(line)
               /\ toLowerCase(<<line[u]>>)[1] \in spellings
               /\ u = Len(line) \/ ~IsWordToken(line[u + 1])
        starts == {i \in DOMAIN line : matchesAt(i)}
    IN  IF starts = {} THEN [matched |-> FALSE, from |-> 0, to |-> 0]
        ELSE LET i == CHOOSE x \in starts : \A y \in starts : x <= y
             IN  [matched |-> TRUE, from |-> i, to |-> skipSpaces(line, i + 1)]

\* s.replace(sub, ""): the first place where sub stands is cut out
replaceFirst(s, sub) ==
    LET places == {k \in 1..(Len(s) - Len(sub) + 1) : hasPrefixAt(s, k, sub)}
    IN  IF places = {} THEN s
        ELSE LET k == CHOOSE x \in places : \A y \in places : x <= y
             IN  SubSeq(s, 1, k - 1) \o SubSeq(s, k + Len(sub), Len(s))

\* s.replace(/\s+/g, " ")
RECURSIVE collapseSpaces(_)
collapseSpaces(s) ==
    IF s = <<>> THEN <<>>
    ELSE IF IsSpace(Head(s)) THEN <<" ">> \o collapseSpaces(trimStart(s))
    ELSE <<Head(s)>> \o collapseSpaces(Tail(s))

\* `${qty} ${unit} ${rest}`
reorder(normalizedLine, m) ==
    LET rest == collapseSpaces(trim(replaceFirst(normalizedLine,
                                  SubSeq(normalizedLine, m.from, m.to))))
    IN  <<normalizedLine[m.from], " ", normalizedLine[m.to], " ">> \o rest

\* what parseIngredientWithDefaults pushes for one line, without the second
\* parse
parsedOfLineBaselineOnly(line, units) ==
    parseIngredient(normalizeDecimalComma(line), units)

\* what parseIngredientWithDefaults pushes for one line: the parse of the
\* line, or the parse of the line reordered around the first numeral that
\* has a unit after it when the first parse found no quantity and the
\* second did
parsedOfLine(line, units) ==
    LET normalizedLine == normalizeDecimalComma(line)
        parsed == parseIngredient(normalizedLine, units)
        m == unitMatch(normalizedLine, units)
    IN  IF noQuantity(parsed) /\ m.matched
          THEN LET smartParsed == parseIngredient(reorder(normalizedLine, m), units)
               IN  IF ~noQuantity(smartParsed) THEN smartParsed ELSE parsed
          ELSE parsed

\* parseIngredientWithDefaults: empty lines are skipped, the entries of all
\* lines are merged in order
RECURSIVE parseIngredientWithDefaults(_, _)
parseIngredientWithDefaults(lines, units) ==
    IF lines = <<>> THEN <<>>
    ELSE (IF Head(lines) = <<>> THEN <<>> ELSE parsedOfLine(Head(lines), units))
            \o parseIngredientWithDefaults(Tail(lines), units)

\* parseIngredients: order: i, counted from 0
parseIngredients(ingSource) ==
    LET parsed ==
            parseIngredientWithDefaults(normalizeIngredientSource(ingSource), getUnits)
    IN
    [i \in 1..Len(parsed) |->
        [ingredientName |-> parsed[i].description, order |-> i - 1]]

(***************************************************************************)
(* The two DTO producers                                                   *)
(***************************************************************************)
\* normalizeRecipeFromJson (src/unnamed/part_010), the ordered lists of it;
\* recipeIngredient ?? ingredients is the one ingredient source here
normalizeRecipeFromJson(json) ==
    IF ~Truthy(json)
      THEN [by |-> "null", error |-> "", recipeIngredients |-> <<>>, steps |-> <<>>]
    ELSE
    [by |-> "normalizeRecipeFromJson",
     error |-> "",
     recipeIngredients |-> parseIngredients(json.recipeIngredient),
     steps |-> parseSteps(json.recipeInstructions)]

\* splitNonEmptyLines: split on newlines, trim, drop the empty lines
splitNonEmptyLines(v) ==
    IF ~Truthy(v) THEN <<>>
    ELSE SeqFilterNonEmpty([i \in DOMAIN split(v.str, <<>>) |->
                               trim(split(v.str, <<>>)[i])])

\* buildRecipeDTO (src/tooling/vitest/vitest.config.ts:193): throws without
\* a name; ingredients and steps both get order: i, counted from 0.  The
\* schema validation at the end passes a well-formed DTO through unchanged.
buildRecipeDTO(input) ==
    IF trim(input.name) = <<>>
      THEN [by |-> "buildRecipeDTO", error |-> "Missing recipe name",
            recipeIngredients |-> <<>>, steps |-> <<>>]
      ELSE LET ingredientArray ==
                   parseIngredientWithDefaults(
                       splitNonEmptyLines(input.ingredientsText), getUnits)
               stepLines == splitNonEmptyLines(input.instructionsText)
           IN  [by |-> "buildRecipeDTO",
                error |-> "",
                recipeIngredients |->
                    [i \in 1..Len(ingredientArray) |->
                        [ingredientName |-> ingredientArray[i].description,
                         order |-> i - 1]],
                steps |->
                    [i \in 1..Len(stepLines) |-> [step |-> stepLines[i], order |-> i - 1]]]

(***************************************************************************)
(* SpecDTO: the inputs the producers are run on                            *)
(***************************************************************************)
SeqsUpTo(S, n) == UNION {[1..k -> S] : k \in 0..n}

\* step strings: plain, differing in case only, padded, a heading, blank,
\* two lines in one string
StepStrings ==
    {<<"a">>, <<"A">>, <<"b">>, <<" ", "a">>, <<"#", "a">>, <<" ">>,
     <<"a", "\n", "b">>}

StepNodes ==
    {Str(str) : str \in StepStrings}
        \cup {Obj({"HowToStep"}, Str(<<"n">>), Str(<<"a">>), Absent, Absent),
              Obj({"HowToSection"}, Str(<<"a">>), Absent,
                  Arr(<<Str(<<"a">>), Str(<<"b">>)>>), Absent)}

RecipeInstructions ==
    {Absent} \cup StepNodes \cup {Arr(l) : l \in SeqsUpTo(StepNodes, MaxSteps)}

IngredientLines == {<<"a">>, <<>>, <<"a", "\n", "b">>}

IngredientSources ==
    {Absent}
        \cup {Str(l) : l \in IngredientLines}
        \cup {Arr(l) : l \in SeqsUpTo({Str(x) : x \in IngredientLines}, MaxIngredients)}

JsonRecipes ==
    {Absent} \cup
    [kind : {"object"},
     recipeIngredient : IngredientSources,
     recipeInstructions : RecipeInstructions]

TextChars == {"a", " ", "\n"}

Texts == {Absent} \cup {Str(t) : t \in SeqsUpTo(TextChars, MaxTextLen)}

RecipeParseInputs ==
    [name : {<<" ">>, <<"T", "e", "a">>},
     ingredientsText : Texts,
     instructionsText : Texts]

(***************************************************************************)
(* SpecDTO: a producer is run on an input, its caller takes the DTO        *)
(***************************************************************************)
NormalizeRecipeFromJson ==
    /\ dto = NoDTO
    /\ \E json \in JsonRecipes :
        /\ dtoIn' = [producer |-> "normalizeRecipeFromJson", input |-> json]
        /\ dto' = normalizeRecipeFromJson(json)
    /\ UNCHANGED exceptDTO

BuildRecipeDTO ==
    /\ dto = NoDTO
    /\ \E input \in RecipeParseInputs :
        /\ dtoIn' = [producer |-> "buildRecipeDTO", input |-> input]
        /\ dto' = buildRecipeDTO(input)
    /\ UNCHANGED exceptDTO

TakeDTO ==
    /\ dto # NoDTO
    /\ dto' = NoDTO
    /\ dtoIn' = NoInput
    /\ UNCHANGED exceptDTO

NextDTO ==
    \/ NormalizeRecipeFromJson
    \/ BuildRecipeDTO
    \/ TakeDTO

SpecDTO == Init /\ [][NextDTO]_vars

(***************************************************************************)
(* SpecSteps: the inputs the step parsers are run on                       *)
(***************************************************************************)
\* most strings in a rawSteps list handed to deduplicateSteps
MaxRawSteps == 3
\* most nodes in the array at the root of an instruction tree
MaxTreeNodes == 2

\* raw steps: plain, differing in case only, padded, headings (one padded),
\* blank, empty
RawStepStrings ==
    {<<"a">>, <<"A">>, <<"b">>, <<" ", "a">>, <<"#", "a">>, <<"#", "A">>,
     <<" ", "#", "a">>, <<" ">>, <<>>}

RawStepLists == SeqsUpTo(RawStepStrings, MaxRawSteps)

HowToStep(text) == Obj({"HowToStep"}, Absent, Str(text), Absent, Absent)
HowToSection(name, itemListElement, item) ==
    Obj({"HowToSection"}, name, Absent, itemListElement, item)

\* the nodes of an instruction tree: strings, a step, sections (named,
\* padded name, blank name, with an item, holding another section) and an
\* untyped container that holds a section
TreeNodes ==
    {Str(<<"a">>),
     Str(<<"a", "\n", "b">>),
     HowToStep(<<"Y">>),
     HowToSection(Str(<<"X">>), Arr(<<HowToStep(<<"Y">>)>>), Absent),
     HowToSection(Str(<<" ", "X">>), Arr(<<Str(<<"a">>), Str(<<"b">>)>>),
                  HowToStep(<<"c">>)),
     HowToSection(Str(<<" ">>), Arr(<<Str(<<"a">>)>>), Absent),
     HowToSection(Str(<<"X">>),
                  Arr(<<Str(<<"a">>),
                        HowToSection(Str(<<"Z">>), Str(<<"b">>), Absent),
                        Str(<<"c">>)>>),
                  Absent),
     Obj({}, Str(<<"n">>), Absent,
         Arr(<<HowToSection(Str(<<"X">>), Absent, HowToStep(<<"Y">>))>>), Absent)}

InstructionTrees ==
    {Absent} \cup TreeNodes \cup {Arr(l) : l \in SeqsUpTo(TreeNodes, MaxTreeNodes)}

(***************************************************************************)
(* SpecSteps: a step parser is called, its caller takes what it returned   *)
(***************************************************************************)
DeduplicateSteps ==
    /\ fnCall = NoCall
    /\ \E rawSteps \in RawStepLists :
        fnCall' = [fn |-> "deduplicateSteps", arg |-> rawSteps,
                   ret |-> deduplicateSteps(rawSteps)]
    /\ UNCHANGED exceptFn

CollectSteps ==
    /\ fnCall = NoCall
    /\ \E node \in InstructionTrees :
        fnCall' = [fn |-> "collectSteps", arg |-> node, ret |-> collectSteps(node)]
    /\ UNCHANGED exceptFn

ParseSteps ==
    /\ fnCall = NoCall
    /\ \E recipeInstructions \in InstructionTrees :
        fnCall' = [fn |-> "parseSteps", arg |-> recipeInstructions,
                   ret |-> parseSteps(recipeInstructions)]
    /\ UNCHANGED exceptFn

\* the caller has the value; the next call can be made
Return ==
    /\ fnCall # NoCall
    /\ fnCall' = NoCall
    /\ UNCHANGED exceptFn

NextSteps ==
    \/ DeduplicateSteps
    \/ CollectSteps
    \/ ParseSteps
    \/ Return

SpecSteps == Init /\ [][NextSteps]_vars

(***************************************************************************)
(* Durations: parseIsoDuration (src/lib/grocery-grouping.ts:304) and       *)
(* parseHumanDurationToMinutes (src/tooling/vitest/vitest.config.ts:54).   *)
(* A regular expression is matched as the engine matches it: leftmost      *)
(* start, greedy repetition, alternatives in order.                        *)
(***************************************************************************)
Digits == {"0", "1", "2", "3", "4", "5", "6", "7", "8", "9"}

\* \d
IsDigit(c) == c \in Digits

\* \w
IsWordChar(c) ==
    c \in Digits \cup {"_"} \cup
          {"a", "b", "c", "d", "e", "f", "g", "h", "i", "j", "k", "l", "m",
           "n", "o", "p", "q", "r", "s", "t", "u", "v", "w", "x", "y", "z",
           "A", "B", "H", "M", "P", "S", "T", "X"}

digitValue(c) ==
    CASE c = "0" -> 0 [] c = "1" -> 1 [] c = "2" -> 2 [] c = "3" -> 3
      [] c = "4" -> 4 [] c = "5" -> 5 [] c = "6" -> 6 [] c = "7" -> 7
      [] c = "8" -> 8 [] c = "9" -> 9

\* parseInt(ds, 10) of a string of digits
RECURSIVE parseInt(_)
parseInt(ds) ==
    IF ds = <<>> THEN 0
    ELSE 10 * parseInt(SubSeq(ds, 1, Len(ds) - 1)) + digitValue(ds[Len(ds)])

\* \d+ from position i (a digit): the last position of the run of digits
digitRunEnd(s, i) ==
    CHOOSE j \in i..Len(s) :
        /\ \A k \in i..j : IsDigit(s[k])
        /\ j = Len(s) \/ ~IsDigit(s[j + 1])

NoMatch == [matched |-> FALSE, digits |-> <<>>, end |-> 0]

\* (\d+)<letter> at position i, either case of the letter: the digits and
\* the position after the letter
componentAt(s, i, letter) ==
    IF i <= Len(s) /\ IsDigit(s[i])
      THEN LET e == digitRunEnd(s, i) IN
           IF e < Len(s) /\ toLowerCase(<<s[e + 1]>>) = <<letter>>
             THEN [matched |-> TRUE, digits |-> SubSeq(s, i, e), end |-> e + 2]
             ELSE NoMatch
      ELSE NoMatch

\* parseIsoDuration whose pattern lacks the i flag
parseIsoDurationCaseSensitive(iso) ==
    LET starts == {i \in 1..(Len(iso) - 1) : SubSeq(iso, i, i + 1) = <<"P", "T">>}
        upperAt(i, letter) ==
            LET c == componentAt(iso, i, letter) IN
            IF c.matched /\ iso[c.end - 1] \in {"H", "M"} THEN c ELSE NoMatch
    IN  IF starts = {} THEN Absent
        ELSE LET i == CHOOSE x \in starts : \A y \in starts : x <= y
                 h == upperAt(i + 2, "h")
                 m == upperAt(IF h.matched THEN h.end ELSE i + 2, "m")
             IN  Num((IF h.matched THEN parseInt(h.digits) ELSE 0) * 60
                       + (IF m.matched THEN parseInt(m.digits) ELSE 0))

\* parseIsoDuration: /PT(?:(\d+)H)?(?:(\d+)M)?/i.exec(iso || ""), at the
\* first "PT" of the string; hours * 60 + minutes, an absent group counts 0
parseIsoDuration(iso) ==
    LET starts == {i \in 1..(Len(iso) - 1) :
                      toLowerCase(SubSeq(iso, i, i + 1)) = <<"p", "t">>}
    IN  IF starts = {} THEN Absent
        ELSE LET i == CHOOSE x \in starts : \A y \in starts : x <= y
                 h == componentAt(iso, i + 2, "h")
                 m == componentAt(iso, IF h.matched THEN h.end ELSE i + 2, "m")
             IN  Num((IF h.matched THEN parseInt(h.digits) ELSE 0) * 60
                       + (IF m.matched THEN parseInt(m.digits) ELSE 0))

\* (\d+)\s*(?:alt|...)<follow> searched in s: the digits of the leftmost
\* match.  follows holds the positions after a unit at which the pattern's
\* last part is met.
tokenMatch(s, alts, follows) ==
    LET matchesAt(i) ==
            /\ IsDigit(s[i])
            /\ LET u == skipSpaces(s, digitRunEnd(s, i) + 1) IN
               \E w \in alts : hasPrefixAt(s, u, w) /\ (u + Len(w)) \in follows
        starts == {i \in 1..Len(s) : matchesAt(i)}
    IN  IF starts = {} THEN NoMatch
        ELSE LET i == CHOOSE x \in starts : \A y \in starts : x <= y
             IN  [matched |-> TRUE, digits |-> SubSeq(s, i, digitRunEnd(s, i)),
                  end |-> 0]

\* (?:\s|\d|$)
hourFollows(s) ==
    {i \in 1..(Len(s) + 1) : i > Len(s) \/ IsSpace(s[i]) \/ IsDigit(s[i])}

\* (?!\w)
minFollows(s) == {i \in 1..(Len(s) + 1) : i > Len(s) \/ ~IsWordChar(s[i])}

\* hrs?|hours?|h
HourUnits ==
    {<<"h", "r", "s">>, <<"h", "r">>, <<"h", "o", "u", "r", "s">>,
     <<"h", "o", "u", "r">>, <<"h">>}

\* mins?|minutes?|m
MinuteUnits ==
    {<<"m", "i", "n", "s">>, <<"m", "i", "n">>,
     <<"m", "i", "n", "u", "t", "e", "s">>, <<"m", "i", "n", "u", "t", "e">>,
     <<"m">>}

\* /^(\d{1,2}):(\d{2})\s*(?:h|hr)?$/ on the whole of s
colonMatch(s) ==
    LET colons == {c \in {2, 3} :
                      /\ c <= Len(s)
                      /\ s[c] = ":"
                      /\ \A k \in 1..(c - 1) : IsDigit(s[k])}
    IN  IF colons = {} THEN [matched |-> FALSE, hours |-> <<>>, minutes |-> <<>>]
        ELSE LET c == CHOOSE x \in colons : TRUE IN
             IF /\ c + 2 <= Len(s)
                /\ IsDigit(s[c + 1])
                /\ IsDigit(s[c + 2])
                /\ LET u == skipSpaces(s, c + 3)
                       rest == SubSeq(s, u, Len(s))
                   IN  rest \in {<<>>, <<"h">>, <<"h", "r">>}
               THEN [matched |-> TRUE, hours |-> SubSeq(s, 1, c - 1),
                     minutes |-> SubSeq(s, c + 1, c + 2)]
               ELSE [matched |-> FALSE, hours |-> <<>>, minutes |-> <<>>]

\* hours * 60 + minutes of the pattern that applies to `lower`
humanTotal(lower) ==
    LET cm == colonMatch(lower)
        hourMatch == tokenMatch(lower, HourUnits, hourFollows(lower))
        minMatch == tokenMatch(lower, MinuteUnits, minFollows(lower))
    IN  IF cm.matched THEN parseInt(cm.hours) * 60 + parseInt(cm.minutes)
        ELSE (IF hourMatch.matched THEN parseInt(hourMatch.digits) ELSE 0) * 60
                + (IF minMatch.matched THEN parseInt(minMatch.digits) ELSE 0)

\* parseHumanDurationToMinutes that hands back the total as it is
parseHumanDurationToMinutesAnyTotal(s) ==
    IF ~Truthy(s) \/ trim(s.str) = <<>> THEN Absent
    ELSE Num(humanTotal(trim(toLowerCase(s.str))))

\* parseHumanDurationToMinutes: undefined for null, empty and blank input,
\* else the total when it is greater than 0 (a total of digits this short is
\* always finite)
parseHumanDurationToMinutes(s) ==
    IF ~Truthy(s) \/ trim(s.str) = <<>> THEN Absent
    ELSE LET total == humanTotal(trim(toLowerCase(s.str))) IN
         IF total > 0 THEN Num(total) ELSE Absent

(***************************************************************************)
(* SpecDuration: the inputs and the calls of the duration parsers          *)
(***************************************************************************)
\* longest duration string
MaxDurationLen == 4

IsoChars == {"P", "T", "t", "H", "M", "S", "1", "0", "x"}

IsoStrings == SeqsUpTo(IsoChars, MaxDurationLen)

HumanChars == {"0", "1", ":", "h", "m", "r", " ", "x"}

\* every short string, and the forms the function's comment names
HumanStrings ==
    {Absent}
        \cup {Str(s) : s \in SeqsUpTo(HumanChars, MaxDurationLen)}
        \cup {Str(<<"3", "0", " ", "m", "i", "n">>),
              Str(<<"1", " ", "h", "r", " ", "1", "5", " ", "m", "i", "n">>),
              Str(<<"1", "h", "3", "0", "m">>),
              Str(<<"1", " ", "H", "o", "u", "r">>),
              Str(<<"1", ":", "0", "0", "h">>),
              Str(<<"0", " ", "m", "i", "n", "u", "t", "e", "s">>),
              Str(<<"2", " ", "m", "e", "d", "i", "u", "m">>)}

ParseIsoDuration ==
    /\ fnCall = NoCall
    /\ \E iso \in IsoStrings :
        fnCall' = [fn |-> "parseIsoDuration", arg |-> iso, ret |-> parseIsoDuration(iso)]
    /\ UNCHANGED exceptFn

ParseHumanDurationToMinutes ==
    /\ fnCall = NoCall
    /\ \E s \in HumanStrings :
        fnCall' = [fn |-> "parseHumanDurationToMinutes", arg |-> s,
                   ret |-> parseHumanDurationToMinutes(s)]
    /\ UNCHANGED exceptFn

NextDuration ==
    \/ ParseIsoDuration
    \/ ParseHumanDurationToMinutes
    \/ Return

SpecDuration == Init /\ [][NextDuration]_vars

(***************************************************************************)
(* SpecIngredient: ingredient lines and the call that parses one           *)
(***************************************************************************)
\* most words in an ingredient line
MaxWords == 4

\* numerals (one of them 0, one with a decimal comma), spellings of units
\* (one in another case), other words, a comma
LineWords == {"2", "0", "1,5", "cups", "Cups", "g", "eggs", "Add", ","}

\* the words with one space between them
RECURSIVE joinWords(_)
joinWords(ws) ==
    IF ws = <<>> THEN <<>>
    ELSE IF Len(ws) = 1 THEN ws
    ELSE <<Head(ws), " ">> \o joinWords(Tail(ws))

IngredientTexts == {joinWords(ws) : ws \in SeqsUpTo(LineWords, MaxWords)}

\* parseIngredientWithDefaults(line, units) with the configured units
ParseIngredientWithDefaults ==
    /\ fnCall = NoCall
    /\ \E line \in IngredientTexts :
        fnCall' = [fn |-> "parseIngredientWithDefaults", arg |-> line,
                   ret |-> parseIngredientWithDefaults(<<line>>, getUnits)]
    /\ UNCHANGED exceptFn

NextIngredient ==
    \/ ParseIngredientWithDefaults
    \/ Return

SpecIngredient == Init /\ [][NextIngredient]_vars

(***************************************************************************)
(* SpecUnits: the unit dictionary under the calls that are handed it       *)
(***************************************************************************)
MaxLineWords == 2

\* the dictionary with every spelling of a unit pushed into its alternates,
\* as if the spellings were collected in the dictionary itself
unitsAfterLineCollectedInPlace(u, line) ==
    IF noQuantity(parseIngredient(normalizeDecimalComma(line), u))
    THEN [key \in DOMAIN u |->
            [u[key] EXCEPT !.alternates = @ \cup {u[key].short, u[key].plural}]]
    ELSE u

\* The dictionary after parseIngredientWithDefaults has handled one line:
\* the function hands it to parseIngredient as additionalUOMs, which merges
\* it into an object of its own, and iterates over it; the spellings it
\* collects go to the local Set allUnits, and it is the array made from
\* that Set which is sorted. No statement assigns to the dictionary or to
\* an object in it.
unitsAfterLine(u, line) == u

\* the dictionary after parseIngredientWithDefaults(lines, units)
RECURSIVE unitsAfterLines(_, _)
unitsAfterLines(u, lines) ==
    IF lines = <<>> THEN u
    ELSE unitsAfterLines(IF Head(lines) = <<>> THEN u
                         ELSE unitsAfterLine(u, Head(lines)),
                         Tail(lines))

\* `1 ${trimmed} item`
groupingLine(trimmed) == <<"1", " ">> \o trimmed \o <<" ", "item">>

\* normalizeUnitForGrouping(unit, customUnits): the canonical ID of the
\* unit, or the unit in lower case; "" for no unit
normalizeUnitForGrouping(unit, customUnits) ==
    IF unit = Null \/ unit.str = <<>> \/ trim(unit.str) = <<>> THEN Str(<<>>)
    ELSE LET parsed ==
                parseIngredientWithDefaults(<<groupingLine(trim(unit.str))>>,
                                            customUnits)
         IN  IF parsed # <<>> /\ parsed[1].unitOfMeasureID # Null
             THEN parsed[1].unitOfMeasureID
             ELSE Str(toLowerCase(trim(unit.str)))

\* parseIngredientWithDefaults(lines, units), as parseIngredients and
\* buildRecipeDTO call it with the lines of a recipe and the loaded units
ParseLinesWithUnits ==
    /\ fnCall = NoCall
    /\ \E n \in 0..MaxIngredients :
        \E words \in [1..n -> SeqsUpTo({"2", "0", "cups"}, MaxLineWords)] :
          LET lines == [k \in 1..n |-> joinWords(words[k])] IN
          /\ fnCall' = [fn |-> "parseIngredientWithDefaults", arg |-> lines,
                        ret |-> parseIngredientWithDefaults(lines, unitsMap)]
          /\ unitsMap' = unitsAfterLines(unitsMap, lines)
    /\ UNCHANGED exceptUnits

\* normalizeUnitForGrouping(unit, customUnits) with the loaded units, as
\* groupGroceriesByIngredient calls it for every grocery
NormalizeUnitForGrouping ==
    /\ fnCall = NoCall
    /\ \E unit \in {Null, Str(<<>>), Str(<<" ">>), Str(<<"cups">>),
                    Str(<<" ", "Cups">>), Str(<<"eggs">>), Str(<<"G">>)} :
          /\ fnCall' = [fn |-> "normalizeUnitForGrouping", arg |-> unit,
                        ret |-> normalizeUnitForGrouping(unit, unitsMap)]
          /\ unitsMap' =
                IF unit = Null \/ unit.str = <<>> \/ trim(unit.str) = <<>>
                THEN unitsMap
                ELSE unitsAfterLines(unitsMap, <<groupingLine(trim(unit.str))>>)
    /\ UNCHANGED exceptUnits

\* The caller takes what the call returned.
ReturnWithUnits ==
    /\ fnCall # NoCall
    /\ fnCall' = NoCall
    /\ UNCHANGED unitsMap
    /\ UNCHANGED exceptUnits

NextUnits ==
    \/ ParseLinesWithUnits
    \/ NormalizeUnitForGrouping
    \/ ReturnWithUnits

SpecUnits == Init /\ [][NextUnits]_vars

(***************************************************************************)
(* The archive extractors: extractPaprikaRecipes and parseMelaArchive      *)
(***************************************************************************)
MaxEntries == 3

\* What an entry of the zip holds, by how far the extractor gets with it:
\* its bytes cannot be read, they are not gzip data, the text is not JSON,
\* the JSON is not a Paprika recipe, or it is a recipe (without a photo,
\* with one, with one that cannot be decoded).
PaprikaContents ==
    {"unreadable", "not gzip", "not JSON", "not a recipe", "recipe",
     "recipe with photo", "recipe with bad photo"}
MelaContents == {"unreadable", "not JSON", "recipe"}

\* zip.file(/\.paprikarecipe$/i), zip.file(/\.melarecipe$/i): the entries
\* with the extension, in the order of the archive
SelectExt(entries, ext) ==
    SelectSeq(entries, LAMBDA e : e.ext = ext)

\* the zips handed to an extractor: up to MaxEntries entries, named by
\* their position, with the extension or another one
Zips(ext, contents) ==
    UNION { { [i \in 1..n |-> [name |-> i, ext |-> f[i].ext, content |-> f[i].content]] :
                f \in [1..n -> ([ext : {ext}, content : contents]
                                  \cup {[ext |-> "txt", content |-> "other"]})] } :
            n \in 0..MaxEntries }

\* the body of the try block for one .paprikarecipe file: the stage that
\* throws, or the result pushed
tryPaprikaFile(paprikaFile) ==
    CASE paprikaFile.content = "unreadable" ->
            [threw |-> TRUE, at |-> "async"]
      [] paprikaFile.content = "not gzip" ->
            [threw |-> TRUE, at |-> "gunzipAsync"]
      [] paprikaFile.content = "not JSON" ->
            [threw |-> TRUE, at |-> "JSON.parse"]
      [] paprikaFile.content = "not a recipe" ->
            [threw |-> TRUE, at |-> "PaprikaRecipeSchema.parse"]
      [] OTHER ->
            [threw |-> FALSE,
             value |-> [recipe |-> paprikaFile.name,
                        image |-> paprikaFile.content = "recipe with photo",
                        fileName |-> paprikaFile.name]]

\* the body of the try block for one .melarecipe entry
tryMelaEntry(entry) ==
    CASE entry.content = "unreadable" -> [threw |-> TRUE, at |-> "async"]
      [] entry.content = "not JSON" -> [threw |-> TRUE, at |-> "JSON.parse"]
      [] OTHER -> [threw |-> FALSE, value |-> [recipe |-> entry.name]]

\* the loop has no entry left: return results
loopEnd(a) ==
    IF a.idx > Len(a.files) THEN [a EXCEPT !.status = "returned"] ELSE a

\* one iteration without the catch: the exception leaves the extractor
afterTryNoCatch(a, outcome) ==
    IF outcome.threw
    THEN [a EXCEPT !.status = "threw"]
    ELSE loopEnd([a EXCEPT !.results = Append(@, outcome.value), !.idx = @ + 1])

\* one iteration of either loop, given what the try block did: push the
\* result, or catch, log.warn with the file name, and go on
afterTry(a, outcome) ==
    IF outcome.threw
    THEN loopEnd([a EXCEPT !.warnings = Append(@, a.files[a.idx].name),
                           !.idx = @ + 1])
    ELSE loopEnd([a EXCEPT !.results = Append(@, outcome.value), !.idx = @ + 1])

\* the state of an extractor right after its call, before the first entry
startArchive(fn, files) ==
    loopEnd([fn |-> fn, files |-> files, idx |-> 1, results |-> <<>>,
             warnings |-> <<>>, status |-> "running"])

\* A caller invokes extractPaprikaRecipes(zip).
ExtractPaprikaRecipes ==
    /\ archive.status = "idle"
    /\ \E zip \in Zips("paprikarecipe", PaprikaContents) :
          archive' = startArchive("extractPaprikaRecipes",
                                  SelectExt(zip, "paprikarecipe"))
    /\ UNCHANGED exceptArchive

\* One iteration of the loop of extractPaprikaRecipes.
PaprikaFile ==
    /\ archive.status = "running"
    /\ archive.fn = "extractPaprikaRecipes"
    /\ archive' = afterTry(archive, tryPaprikaFile(archive.files[archive.idx]))
    /\ UNCHANGED exceptArchive

\* A caller invokes parseMelaArchive(zip).
ParseMelaArchive ==
    /\ archive.status = "idle"
    /\ \E zip \in Zips("melarecipe", MelaContents) :
          archive' = startArchive("parseMelaArchive", SelectExt(zip, "melarecipe"))
    /\ UNCHANGED exceptArchive

\* One iteration of the loop of parseMelaArchive.
MelaEntry ==
    /\ archive.status = "running"
    /\ archive.fn = "parseMelaArchive"
    /\ archive' = afterTry(archive, tryMelaEntry(archive.files[archive.idx]))
    /\ UNCHANGED exceptArchive

\* The caller has the outcome of the extractor.
ArchiveDone ==
    /\ archive.status \in {"returned", "threw"}
    /\ archive' = NoArchive
    /\ UNCHANGED exceptArchive

NextArchive ==
    \/ ExtractPaprikaRecipes
    \/ PaprikaFile
    \/ ParseMelaArchive
    \/ MelaEntry
    \/ ArchiveDone

SpecArchive == Init /\ [][NextArchive]_vars

(***************************************************************************)
(* parseVideos and downloadAndSaveVideo                                    *)
(***************************************************************************)
MaxCandidates == 3
\* maxVideos: number = 3
DefaultMaxVideos == 3

Min(a, b) == IF a < b THEN a ELSE b

\* What happens to the video behind a url, by how far downloadAndSaveVideo
\* gets with it.
VideoFates ==
    {"saved", "converted and saved", "download returns null", "download throws",
     "convert throws", "save throws", "save throws after conversion"}

\* a JSON-LD VideoObject node; url 0 stands for a node without contentUrl
\* and url; duration is the node's duration string, if any; metadata is
\* what getVideoMetadata does for the url
VideoObject(url, duration, metadata, fate) ==
    [type |-> "VideoObject", url |-> url, duration |-> duration,
     metadata |-> metadata, fate |-> fate]

\* the nodes of a video field at position url: video objects of every
\* fate, one without a url, and a node of another type
VideoNodes(url) ==
    { VideoObject(url, "PT1M", "unused", fate) : fate \in VideoFates }
    \cup { VideoObject(url, "", "ok", "saved"),
           VideoObject(url, "", "throws", "saved"),
           VideoObject(url, "", "throws", "download returns null"),
           VideoObject(0, "PT1M", "unused", "saved"),
           [type |-> "ImageObject", url |-> url, duration |-> "",
            metadata |-> "unused", fate |-> "saved"] }

\* a video field: an array of nodes, each with its position as url
videoFieldOf(pick) ==
    [k \in DOMAIN pick |-> [pick[k] EXCEPT !.url = IF @ = 0 THEN 0 ELSE k]]

\* normalizeVideoObject(node) is not null
isCandidate(node) == node.type = "VideoObject" /\ node.url # 0

extractVideoCandidates(videoField) ==
    SelectSeq(videoField, isCandidate)

\* parseDuration, on the two duration strings of the model: seconds, or
\* null
parseDuration(duration) ==
    IF duration = "PT1M" THEN Num(60) ELSE Null

\* the duration handed to saveVideoFile: the hint, else what the metadata
\* gives, else none when the metadata fetch fails
durationOf(candidate, durationHint) ==
    IF durationHint # Null THEN durationHint
    ELSE IF candidate.metadata = "ok" THEN Num(30)
    ELSE Null

\* the temp files on disk when downloadAndSaveVideo leaves its try block:
\* the download until it is converted or cleaned up after the save, the
\* converted file until it is cleaned up after the save
tempWritten(candidate) ==
    CASE candidate.fate \in {"convert throws", "save throws"} ->
            {<<"downloaded", candidate.url>>}
      [] candidate.fate = "save throws after conversion" ->
            {<<"converted", candidate.url>>}
      [] OTHER -> {}

\* the temp files the finally block removes: downloadedPath and
\* convertedPath, where they are still set
tempCleaned(candidate) ==
    (IF candidate.fate \in {"convert throws", "save throws"}
     THEN {<<"downloaded", candidate.url>>} ELSE {})
    \cup (IF candidate.fate = "save throws after conversion"
          THEN {<<"converted", candidate.url>>} ELSE {})

\* the video numbered from one instead of by the order handed in
parsedVideoFromOne(candidate, order, durationHint) ==
    [video |-> candidate.url, duration |-> durationOf(candidate, durationHint),
     order |-> order + 1]

\* the ParsedVideo that downloadAndSaveVideo returns: the saved file, the
\* duration, and the order handed in by parseVideos
parsedVideo(candidate, order, durationHint) ==
    [video |-> candidate.url, duration |-> durationOf(candidate, durationHint),
     order |-> order]

\* downloadAndSaveVideo without its catch: a failing stage throws
downloadAndSaveVideoNoCatch(candidate, order, durationHint) ==
    IF candidate.fate \in {"saved", "converted and saved"}
    THEN [threw |-> FALSE,
          parsed |-> parsedVideo(candidate, order, durationHint),
          tempFiles |-> tempWritten(candidate) \ tempCleaned(candidate)]
    ELSE [threw |-> candidate.fate # "download returns null", parsed |-> Null,
          tempFiles |-> tempWritten(candidate) \ tempCleaned(candidate)]

\* downloadAndSaveVideo(videoUrl, recipeId, order, thumbnailUrl,
\* durationHint): the parsed video, or null when the download returns
\* null or any stage throws
downloadAndSaveVideo(candidate, order, durationHint) ==
    IF candidate.fate \in {"saved", "converted and saved"}
    THEN [threw |-> FALSE,
          parsed |-> parsedVideo(candidate, order, durationHint),
          tempFiles |-> tempWritten(candidate) \ tempCleaned(candidate)]
    ELSE [threw |-> FALSE, parsed |-> Null,
          tempFiles |-> tempWritten(candidate) \ tempCleaned(candidate)]

\* the loop of parseVideos bounded by the candidates alone, without maxVideos
videoLoopEndUncapped(v) ==
    IF v.i < Len(v.candidates) THEN v
    ELSE [v EXCEPT !.status = "returned"]

\* the loop condition of parseVideos fails: return { videos }
videoLoopEnd(v) ==
    IF v.i < Min(Len(v.candidates), v.maxVideos) THEN v
    ELSE [v EXCEPT !.status = "returned"]

\* A caller invokes parseVideos(videoField, recipeId, maxVideos).
ParseVideos ==
    /\ videoRun.status = "idle"
    /\ \E n \in 0..MaxCandidates, maxVideos \in 0..DefaultMaxVideos :
        \E pick \in [1..n -> VideoNodes(1)] :
          videoRun' =
              videoLoopEnd([candidates |-> extractVideoCandidates(videoFieldOf(pick)),
                            maxVideos |-> maxVideos, i |-> 0, started |-> <<>>,
                            inProgress |-> {}, videos |-> <<>>, tempFiles |-> {},
                            status |-> "loop"])
    /\ UNCHANGED exceptVideos

\* The loop body up to the await: downloadAndSaveVideo is called for
\* candidate i.
StartDownload ==
    /\ videoRun.status = "loop"
    /\ videoRun' =
          IF videoRun.candidates[videoRun.i + 1].url = 0
          THEN videoLoopEnd([videoRun EXCEPT !.i = @ + 1])
          ELSE [videoRun EXCEPT !.started = Append(@, videoRun.i),
                                !.inProgress = @ \cup {videoRun.i},
                                !.status = "downloading"]
    /\ UNCHANGED exceptVideos

\* downloadAndSaveVideo settles: the video is pushed if there is one, and
\* the loop goes to the next candidate.
EndDownload ==
    /\ videoRun.status = "downloading"
    /\ LET candidate == videoRun.candidates[videoRun.i + 1]
           out == downloadAndSaveVideo(candidate, videoRun.i,
                                       parseDuration(candidate.duration))
           settled == [videoRun EXCEPT !.inProgress = @ \ {videoRun.i},
                                       !.tempFiles = @ \cup out.tempFiles,
                                       !.status = "loop"]
       IN  videoRun' =
             IF out.threw THEN [settled EXCEPT !.status = "threw"]
             ELSE IF out.parsed # Null
             THEN videoLoopEnd([settled EXCEPT !.videos = Append(@, out.parsed),
                                               !.i = @ + 1])
             ELSE videoLoopEnd([settled EXCEPT !.i = @ + 1])
    /\ UNCHANGED exceptVideos

\* The caller has the outcome of parseVideos.
VideosDone ==
    /\ videoRun.status \in {"returned", "threw"}
    /\ videoRun' = NoVideoRun
    /\ UNCHANGED exceptVideos

NextVideos ==
    \/ ParseVideos
    \/ StartDownload
    \/ EndDownload
    \/ VideosDone

SpecVideos == Init /\ [][NextVideos]_vars

(***************************************************************************)
(* src/server/db/repositories/stores.ts: findBestIngredientStorePreference *)
(***************************************************************************)
MaxPreferences == 3
\* FUZZY_THRESHOLD = 0.4, in tenths
FUZZY_THRESHOLD == 4

UserIds == {"u1", "u2", "u3"}
\* the normalized names stored in ingredient_store_preferences
PreferenceNames == {<<"a">>, <<"a", " ", "b">>}
\* the names searched for, as the caller writes them
SearchNames == {<<" ", "A">>, <<"a", " ", " ", "b">>, <<"b">>, <<" ">>}
\* the scores Fuse gives a name that differs from the pattern, in tenths
FuseScores == {2, 3, 6}

\* normalizeIngredientName
normalizeIngredientName(name) == collapseSpaces(trim(toLowerCase(name)))

\* listIngredientStorePreferencesForUsers: the rows of the users, in the
\* order of the table
listIngredientStorePreferencesForUsers(db, userIds) ==
    SelectSeq(db, LAMBDA p : \E k \in 1..Len(userIds) : userIds[k] = p.userId)

\* Array.prototype.find: the first element of the kind, or undefined
findExact(allPreferences, normalizedSearch, currentUserId, ofCurrentUser) ==
    LET hits == SelectSeq(allPreferences,
                    LAMBDA p : /\ (p.userId = currentUserId) = ofCurrentUser
                               /\ p.normalizedName = normalizedSearch)
    IN  IF hits = <<>> THEN Null ELSE hits[1]

\* the score Fuse gives a preference for the pattern: 0 for the pattern
\* itself, else what the scoring of the run says for its name
fuseScore(p, normalizedSearch, scoring) ==
    IF p.normalizedName = normalizedSearch THEN 0 ELSE scoring[p.normalizedName]

\* fuse.search with threshold and shouldSort: the items that score within
\* the threshold, the best score first, from score `from` on
RECURSIVE fuseSearchFrom(_, _, _, _)
fuseSearchFrom(allPreferences, normalizedSearch, scoring, from) ==
    IF from > FUZZY_THRESHOLD THEN <<>>
    ELSE LET here == SelectSeq(allPreferences,
                        LAMBDA p : fuseScore(p, normalizedSearch, scoring) = from)
         IN  [k \in 1..Len(here) |-> [item |-> here[k], score |-> from]]
             \o fuseSearchFrom(allPreferences, normalizedSearch, scoring, from + 1)

Match(preference, score, isExactMatch, isCurrentUser) ==
    [kind |-> "match", preference |-> preference, score |-> score,
     isExactMatch |-> isExactMatch, isCurrentUser |-> isCurrentUser]

\* the fuzzy step of findBestIngredientStorePreference
fuzzyStep(allPreferences, currentUserId, normalizedSearch, scoring) ==
    LET results == fuseSearchFrom(allPreferences, normalizedSearch, scoring, 0)
        currentUserMatches ==
            SelectSeq(results, LAMBDA r : r.item.userId = currentUserId)
        otherUserMatches ==
            SelectSeq(results, LAMBDA r : r.item.userId # currentUserId)
    IN  IF results = <<>> THEN Null
        ELSE IF currentUserMatches # <<>>
        THEN Match(currentUserMatches[1].item, currentUserMatches[1].score,
                   FALSE, TRUE)
        ELSE IF otherUserMatches # <<>>
        THEN Match(otherUserMatches[1].item, otherUserMatches[1].score,
                   FALSE, FALSE)
        ELSE Null

\* the function with the fuzzy step ahead of the other members' exact match
findBestFuzzyBeforeOthers(currentUserId, userIds, searchName, db, scoring) ==
    LET normalizedSearch == normalizeIngredientName(searchName)
        allPreferences == listIngredientStorePreferencesForUsers(db, userIds)
        currentUserExact ==
            findExact(allPreferences, normalizedSearch, currentUserId, TRUE)
    IN  IF userIds = <<>> \/ trim(searchName) = <<>> THEN Null
        ELSE IF allPreferences = <<>> THEN Null
        ELSE IF currentUserExact # Null THEN Match(currentUserExact, 0, TRUE, TRUE)
        ELSE fuzzyStep(allPreferences, currentUserId, normalizedSearch, scoring)

\* findBestIngredientStorePreference(currentUserId, userIds, searchName),
\* over the table db and the scoring Fuse applies
findBestIngredientStorePreference(currentUserId, userIds, searchName, db, scoring) ==
    LET normalizedSearch == normalizeIngredientName(searchName)
        allPreferences == listIngredientStorePreferencesForUsers(db, userIds)
        currentUserExact ==
            findExact(allPreferences, normalizedSearch, currentUserId, TRUE)
        otherUserExact ==
            findExact(allPreferences, normalizedSearch, currentUserId, FALSE)
    IN  IF userIds = <<>> \/ trim(searchName) = <<>> THEN Null
        ELSE IF allPreferences = <<>> THEN Null
        ELSE IF currentUserExact # Null THEN Match(currentUserExact, 0, TRUE, TRUE)
        ELSE IF otherUserExact # Null THEN Match(otherUserExact, 0, TRUE, FALSE)
        ELSE fuzzyStep(allPreferences, currentUserId, normalizedSearch, scoring)

\* A caller invokes findBestIngredientStorePreference on some table of
\* preferences; the store of a row is named after its position.
FindBestIngredientStorePreference ==
    /\ fnCall = NoCall
    /\ \E n \in 0..MaxPreferences, currentUserId \in {"u1", "u2"},
          userIds \in {<<>>, <<"u1", "u2">>}, searchName \in SearchNames,
          scoring \in [PreferenceNames -> FuseScores] :
        \E rows \in [1..n -> [userId : UserIds, normalizedName : PreferenceNames]] :
          LET db == [k \in 1..n |->
                        [kind |-> "preference", userId |-> rows[k].userId,
                         normalizedName |-> rows[k].normalizedName, storeId |-> k]]
              arg == [currentUserId |-> currentUserId, userIds |-> userIds,
                      searchName |-> searchName, db |-> db, scoring |-> scoring]
          IN  fnCall' =
                [fn |-> "findBestIngredientStorePreference", arg |-> arg,
                 ret |-> findBestIngredientStorePreference(
                             currentUserId, userIds, searchName, db, scoring)]
    /\ UNCHANGED exceptFn

NextStores ==
    \/ FindBestIngredientStorePreference
    \/ Return

SpecStores == Init /\ [][NextStores]_vars

(***************************************************************************)
(* src/unnamed/part_015: the create procedure of the groceries router      *)
(***************************************************************************)
MaxRequestEntries == 2

\* normalizeGroceryName
normalizeGroceryName(name) == trim(toLowerCase(name))

\* the entries of a create request: a name (in either case, or blank), the
\* recipe ingredient it comes from if any, a unit if any, an amount if any
GroceryEntries ==
    [name : {<<"A">>, <<"a">>, <<" ">>}, recipeIngredientId : {Null, Id("r1")},
     recurringGroceryId : {Null}, unit : {Null, Id("g")}, amount : {Null, Num(2)}]

\* the groceries that are not done when the request arrives
ExistingGroceries ==
    { {},
      {[id |-> 1, name |-> <<"a">>, recipeIngredientId |-> Null,
        recurringGroceryId |-> Null, unit |-> Id("g"), amount |-> Num(3)]},
      {[id |-> 1, name |-> <<"a">>, recipeIngredientId |-> Null,
        recurringGroceryId |-> Null, unit |-> Null, amount |-> Null]} }

\* `${normalizedName}|${recipeKey}|${recurringKey}`
groceryKey(g) ==
    [name |-> normalizeGroceryName(g.name),
     recipeKey |-> IF g.recipeIngredientId = Null THEN Id("manual")
                   ELSE g.recipeIngredientId,
     recurringKey |-> IF g.recurringGroceryId = Null THEN Id("none")
                      ELSE g.recurringGroceryId]

\* amount ?? 1
amountOr1(amount) == IF amount = Null THEN 1 ELSE amount.n

\* existingByKey as the first loop builds it: for every key the grocery
\* that has it (the table holds at most one here), as pairs <<key, grocery>>
existingByKey(existingGroceries) ==
    { <<groceryKey(g), g>> : g \in {x \in existingGroceries :
                                      normalizeGroceryName(x.name) # <<>>} }

\* Map.get
mapGet(map, key) ==
    IF \E p \in map : p[1] = key
    THEN (CHOOSE p \in map : p[1] = key)[2]
    ELSE Null

\* Map.set
mapSet(map, key, value) ==
    {p \in map : p[1] # key} \cup {<<key, value>>}

\* the second loop of create from entry k on; st holds existingByKey,
\* groceriesToCreate, groceriesToUpdate, returnIds and the next fresh id
RECURSIVE createLoop(_, _, _)
createLoop(input, k, st) ==
    IF k > Len(input) THEN st
    ELSE
    LET g == input[k]
        normalizedName == normalizeGroceryName(g.name)
        lookupKey == groceryKey(g)
        existing == IF normalizedName # <<>>
                    THEN mapGet(st.existingByKey, lookupKey) ELSE Null
        shouldMerge == existing # Null /\ existing.unit = g.unit
        mergedAmount == Num(amountOr1(existing.amount) + amountOr1(g.amount))
        id == st.nextId
        created == [id |-> id, name |-> g.name,
                    recipeIngredientId |-> g.recipeIngredientId,
                    recurringGroceryId |-> g.recurringGroceryId,
                    unit |-> g.unit, amount |-> g.amount]
    IN  createLoop(input, k + 1,
          IF shouldMerge
          THEN [st EXCEPT
                  !.groceriesToUpdate =
                      Append(@, [id |-> existing.id, amount |-> mergedAmount]),
                  !.returnIds = Append(@, existing.id),
                  !.existingByKey =
                      mapSet(@, lookupKey, [existing EXCEPT !.amount = mergedAmount])]
          ELSE [st EXCEPT
                  !.groceriesToCreate = Append(@, created),
                  !.returnIds = Append(@, id),
                  !.nextId = @ + 1,
                  !.existingByKey =
                      IF normalizedName # <<>>
                      THEN mapSet(@, lookupKey,
                                  [created EXCEPT !.recurringGroceryId = Null])
                      ELSE @])

\* the table after updateGroceries applies the updates one after the other
\* to the rows in place, inserting nothing
RECURSIVE updateGroceries(_, _)
updateGroceries(db, updates) ==
    IF updates = <<>> THEN db
    ELSE updateGroceries(
            {IF row.id = Head(updates).id
             THEN [row EXCEPT !.amount = Head(updates).amount] ELSE row :
                row \in db},
            Tail(updates))

\* the table after createGroceries has inserted the new rows
createGroceries(db, creates) ==
    db \cup {creates[k] : k \in 1..Len(creates)}

\* A member of the household calls create(input): the procedure reads the
\* groceries that are not done, sorts the entries into updates and
\* creates, starts updateGroceries and createGroceries without awaiting
\* them, and returns the ids.
Create ==
    /\ grocery.phase = "idle"
    /\ \E existingGroceries \in ExistingGroceries, n \in 0..MaxRequestEntries :
        \E input \in [1..n -> GroceryEntries] :
          LET st == createLoop(input, 1,
                       [existingByKey |-> existingByKey(existingGroceries),
                        groceriesToCreate |-> <<>>, groceriesToUpdate |-> <<>>,
                        returnIds |-> <<>>,
                        nextId |-> Cardinality(existingGroceries) + 1])
          IN  grocery' =
                [phase |-> "returned", before |-> existingGroceries,
                 db |-> existingGroceries, input |-> input,
                 groceriesToUpdate |-> st.groceriesToUpdate,
                 groceriesToCreate |-> st.groceriesToCreate,
                 returnIds |-> st.returnIds,
                 pending |-> (IF st.groceriesToUpdate # <<>>
                              THEN {"updateGroceries"} ELSE {})
                             \cup (IF st.groceriesToCreate # <<>>
                                   THEN {"createGroceries"} ELSE {}),
                 events |-> <<>>]
    /\ UNCHANGED exceptGrocery

\* The database carries out updateGroceries; the household is told.
UpdateGroceries ==
    /\ "updateGroceries" \in grocery.pending
    /\ grocery' = [grocery EXCEPT
            !.db = updateGroceries(@, grocery.groceriesToUpdate),
            !.pending = @ \ {"updateGroceries"},
            !.events = Append(@, "updated")]
    /\ UNCHANGED exceptGrocery

\* The database carries out createGroceries; the household is told.
CreateGroceries ==
    /\ "createGroceries" \in grocery.pending
    /\ grocery' = [grocery EXCEPT
            !.db = createGroceries(@, grocery.groceriesToCreate),
            !.pending = @ \ {"createGroceries"},
            !.events = Append(@, "created")]
    /\ UNCHANGED exceptGrocery

\* The background work of the request is over; the next request may come.
GroceryDone ==
    /\ grocery.phase = "returned"
    /\ grocery.pending = {}
    /\ grocery' = NoGrocery
    /\ UNCHANGED exceptGrocery

NextGrocery ==
    \/ Create
    \/ UpdateGroceries
    \/ CreateGroceries
    \/ GroceryDone

SpecGrocery == Init /\ [][NextGrocery]_vars

(***************************************************************************)
(* Gallery images: uploadGalleryImage                                      *)
(* (src/server/trpc/routers/recipes/images.ts) and cleanupOrphanedImages   *)
(* (src/server/startup/image-cleanup.ts)                                   *)
(***************************************************************************)
\* countRecipeImages(recipeId)
countRecipeImages(table, recipeId) ==
    Len(SelectSeq(table, LAMBDA r : r.recipeId = recipeId))

\* the files the database names now: recipes.image and recipe_images.image
referencedNow(im) ==
    im.recipeImage
    \cup {<<im.recipeImages[k].recipeId, im.recipeImages[k].image>> :
            k \in 1..Len(im.recipeImages)}

\* uploadGalleryImage up to the limit check: the count is read, and the
\* upload is rejected when the maximum is reached
UploadGalleryImage(u) ==
    /\ images.uploads[u].pc = "idle"
    /\ \E recipeId \in RecipeIds, bytes \in ImageBytes :
        LET currentCount == countRecipeImages(images.recipeImages, recipeId) IN
        images' = [images EXCEPT !.uploads[u] =
            IF currentCount >= MAX_RECIPE_IMAGES
            THEN [NoUpload EXCEPT !.pc = "rejected", !.recipeId = recipeId]
            ELSE [pc |-> "counted", recipeId |-> recipeId, bytes |-> bytes,
                  currentCount |-> currentCount, url |-> <<>>]]
    /\ UNCHANGED exceptImages

\* extractAndValidateImage, then saveImageBytes: the file is written to
\* uploads/recipes/{recipeId}/{hash}
SaveImageBytes(u) ==
    /\ images.uploads[u].pc = "counted"
    /\ LET url == <<images.uploads[u].recipeId, images.uploads[u].bytes>> IN
       images' = [images EXCEPT !.files = @ \cup {url},
                                !.uploads[u].url = url,
                                !.uploads[u].pc = "saved"]
    /\ UNCHANGED exceptImages

\* getRecipeOwnerId, then addRecipeImages when the recipe exists: the row
\* is added with the count read at the start as its order
AddRecipeImages(u) ==
    /\ images.uploads[u].pc = "saved"
    /\ LET up == images.uploads[u] IN
       images' = [images EXCEPT
           !.recipeImages =
               IF up.recipeId \in existingRecipes
               THEN Append(@, [recipeId |-> up.recipeId, image |-> up.url[2],
                               order |-> up.currentCount])
               ELSE @,
           !.uploads[u].pc = "done"]
    /\ UNCHANGED exceptImages

\* The caller of uploadGalleryImage has its answer; each of the MaxUploads
\* callers uploads once.
UploadReturns(u) ==
    /\ images.uploads[u].pc \in {"rejected", "done"}
    /\ images' = [images EXCEPT !.uploads[u] = [NoUpload EXCEPT !.pc = "returned"]]
    /\ UNCHANGED exceptImages

\* cleanupOrphanedImages starts: the recipe directories are listed and the
\* ids of the recipes and the image urls are read from the database
CleanupOrphanedImages ==
    /\ images.cleanup.pc = "idle"
    /\ images' = [images EXCEPT !.cleanup =
            [pc |-> "readdir", existingRecipeIds |-> existingRecipes,
             referencedFiles |-> referencedNow(images), imageFiles |-> {},
             deleted |-> 0]]
    /\ UNCHANGED exceptImages

\* fs.readdir(recipeDir) for the directories of the recipes that exist
CleanupReaddir ==
    /\ images.cleanup.pc = "readdir"
    /\ images' = [images EXCEPT
            !.cleanup.imageFiles =
                {f \in images.files : f[1] \in images.cleanup.existingRecipeIds},
            !.cleanup.pc = "scan"]
    /\ UNCHANGED exceptImages

\* the next file of the scan: it is unlinked unless the urls read at the
\* start name it
CleanupFile ==
    /\ images.cleanup.pc = "scan"
    /\ \E file \in images.cleanup.imageFiles :
        LET rest == [images EXCEPT !.cleanup.imageFiles = @ \ {file}] IN
        images' =
            IF file \in images.cleanup.referencedFiles THEN rest
            ELSE [rest EXCEPT
                    !.files = @ \ {file},
                    !.cleanup.deleted = @ + (IF file \in images.files THEN 1 ELSE 0),
                    !.deletedWhileReferenced =
                        @ \cup ({file} \cap (images.files \cap referencedNow(images)))]
    /\ UNCHANGED exceptImages

\* the scan is over: { deleted, errors } is returned; the job runs once,
\* when the server starts
CleanupEnd ==
    /\ images.cleanup.pc = "scan"
    /\ images.cleanup.imageFiles = {}
    /\ images' = [images EXCEPT !.cleanup.pc = "returned"]
    /\ UNCHANGED exceptImages

NextImages ==
    \/ \E u \in 1..MaxUploads : UploadGalleryImage(u)
    \/ \E u \in 1..MaxUploads : SaveImageBytes(u)
    \/ \E u \in 1..MaxUploads : AddRecipeImages(u)
    \/ \E u \in 1..MaxUploads : UploadReturns(u)
    \/ CleanupOrphanedImages
    \/ CleanupReaddir
    \/ CleanupFile
    \/ CleanupEnd

SpecImages == Init /\ [][NextImages]_vars

(***************************************************************************)
(* Grocery drag and drop: useGroceryDnd                                    *)
(* (src/components/groceries/grocery-list.tsx) and useGroupedGroceryDnd    *)
(* (src/unnamed/part_001).  The two hooks hold the same state, the ids     *)
(* of the groceries in the one and the keys of the groups in the other,   *)
(* and handle the events of a drag in the same way.  Each handler runs on  *)
(* the state that the render after the previous event has committed.       *)
(***************************************************************************)
Hooks == {"useGroceryDnd", "useGroupedGroceryDnd"}

\* array.indexOf(id), counted from 0; -1 when id is not in the array
indexOf(array, id) ==
    IF \E k \in 1..Len(array) : array[k] = id
    THEN (CHOOSE k \in 1..Len(array) :
              array[k] = id /\ \A j \in 1..(k - 1) : array[j] # id) - 1
    ELSE -1

includes(array, id) == indexOf(array, id) >= 0

\* array[index], counted from 0: undefined outside of the array
at(array, index) ==
    IF index \in 0..(Len(array) - 1) THEN array[index + 1] ELSE Undefined

\* array.slice(0, index) and array.slice(index)
sliceTo(array, index) ==
    SubSeq(array, 1, IF index < 0 THEN Len(array) + index ELSE Min(index, Len(array)))
sliceFrom(array, index) ==
    SubSeq(array, (IF index < 0 THEN Len(array) + index ELSE Min(index, Len(array))) + 1,
           Len(array))

\* the start of a splice: counted from the end when negative, and kept
\* within the array
spliceStart(array, start) ==
    IF start < 0 THEN (IF Len(array) + start < 0 THEN 0 ELSE Len(array) + start)
    ELSE Min(start, Len(array))

\* arrayMove(array, from, to) of @dnd-kit/sortable: the element is spliced
\* out at from and spliced in at to, and a negative to counts from the end
\* of the array that is left
arrayMove(array, from, to) ==
    LET f == spliceStart(array, from)
        without == sliceTo(array, f) \o sliceFrom(array, f + 1)
        t == spliceStart(without, IF to < 0 THEN Len(without) + to ELSE to)
    IN  IF f >= Len(array) THEN array
        ELSE sliceTo(without, t) \o <<array[f + 1]>> \o sliceFrom(without, t)

\* findContainer(id): the id itself when it is a container, else the first
\* container that holds it, else undefined
findContainer(items, id) ==
    IF id \in DOMAIN items THEN id
    ELSE IF \E k \in 1..Len(ContainerIds) : includes(items[ContainerIds[k]], id)
    THEN ContainerIds[CHOOSE k \in 1..Len(ContainerIds) :
            /\ includes(items[ContainerIds[k]], id)
            /\ \A j \in 1..(k - 1) : ~includes(items[ContainerIds[j]], id)]
    ELSE Undefined

\* findContainerForItem(itemId, items) and findContainerForGroup: the first
\* container that holds the id, else null
findContainerForItem(itemId, items) ==
    IF \E k \in 1..Len(ContainerIds) : includes(items[ContainerIds[k]], itemId)
    THEN ContainerIds[CHOOSE k \in 1..Len(ContainerIds) :
            /\ includes(items[ContainerIds[k]], itemId)
            /\ \A j \in 1..(k - 1) : ~includes(items[ContainerIds[j]], itemId)]
    ELSE NoId

\* A move to another container that leaves the dragged id in the container
\* it came from.
moveAcrossKeepsSource(prevItems, activeId, overId, activeContainer, overContainer, isBelowOverItem) ==
    LET overItems == prevItems[overContainer]
        overIndex == indexOf(overItems, overId)
        newIndex == IF overId \in DOMAIN prevItems THEN Len(overItems)
                    ELSE IF overIndex >= 0
                    THEN overIndex + (IF isBelowOverItem THEN 1 ELSE 0)
                    ELSE Len(overItems)
    IN  [prevItems EXCEPT
            ![overContainer] = sliceTo(prevItems[overContainer], newIndex)
                \o <<at(prevItems[activeContainer], indexOf(prevItems[activeContainer], activeId))>>
                \o sliceFrom(prevItems[overContainer], newIndex)]

\* handleDragOver, the move to another container: the dragged id is
\* filtered out of its container and put into the other one, at the end
\* when the container itself is under it, else before or after the item
\* under it
moveAcross(prevItems, activeId, overId, activeContainer, overContainer, isBelowOverItem) ==
    LET activeItems == prevItems[activeContainer]
        overItems == prevItems[overContainer]
        overIndex == indexOf(overItems, overId)
        activeIndex == indexOf(activeItems, activeId)
        newIndex == IF overId \in DOMAIN prevItems THEN Len(overItems)
                    ELSE IF overIndex >= 0
                    THEN overIndex + (IF isBelowOverItem THEN 1 ELSE 0)
                    ELSE Len(overItems)
    IN  [prevItems EXCEPT
            ![activeContainer] =
                SelectSeq(prevItems[activeContainer], LAMBDA item : item # activeId),
            ![overContainer] = sliceTo(prevItems[overContainer], newIndex)
                \o <<at(activeItems, activeIndex)>>
                \o sliceFrom(prevItems[overContainer], newIndex)]

\* handleDragOver, the move within a container
moveWithin(prevItems, activeId, overId, container) ==
    LET activeIndex == indexOf(prevItems[container], activeId)
        overIndex == indexOf(prevItems[container], overId)
    IN  IF activeIndex # overIndex
        THEN [prevItems EXCEPT
                ![container] = arrayMove(prevItems[container], activeIndex, overIndex)]
        ELSE prevItems

\* handleDragOver({ active, over }) on the state d of the hook
handleDragOver(d, overId, isBelowOverItem) ==
    LET overContainer == findContainer(d.items, overId)
        activeContainer == findContainer(d.items, d.activeId)
    IN  IF overId = NoId \/ d.activeId = overId THEN d
        ELSE IF overContainer = Undefined \/ activeContainer = Undefined THEN d
        ELSE [d EXCEPT
                !.overContainerId = overContainer,
                !.items =
                    IF activeContainer # overContainer
                    THEN moveAcross(d.items, d.activeId, overId, activeContainer,
                                    overContainer, isBelowOverItem)
                    ELSE moveWithin(d.items, d.activeId, overId, overContainer)]

\* A cancel that forgets the drag and leaves the items where they are.
handleDragCancelKeepsItems(d) ==
    [d EXCEPT !.activeId = NoId, !.overContainerId = NoId,
              !.clonedItems = NoClone]

\* handleDragCancel()
handleDragCancel(d) ==
    [d EXCEPT !.items = IF d.clonedItems.isNull THEN @ ELSE d.clonedItems.items,
              !.activeId = NoId, !.overContainerId = NoId,
              !.clonedItems = NoClone]

\* handleDragEnd({ active, over }): without a container of the dragged id
\* the drag is forgotten; without a drop target the copy is put back;
\* else the items stay and the new order goes to the backend
handleDragEnd(d, overId) ==
    LET forgotten == [d EXCEPT !.activeId = NoId, !.overContainerId = NoId,
                               !.clonedItems = NoClone]
    IN  IF findContainer(d.items, d.activeId) = Undefined THEN forgotten
        ELSE IF overId = NoId
        THEN [forgotten EXCEPT
                !.items = IF d.clonedItems.isNull THEN @ ELSE d.clonedItems.items]
        ELSE [forgotten EXCEPT !.reordered = ~d.clonedItems.isNull]

\* The groceries, or the groups, change while nothing is dragged, or the
\* other view of the list is mounted: the hook builds its items from them.
UseGroceryDnd ==
    /\ dnd.activeId = NoId
    /\ \E hook \in Hooks, storeId \in [1..MaxGroceries -> {NoStore, "s1"}],
          done \in {NoId} \cup {groceryIds[i] : i \in 1..MaxGroceries} :
        LET items == buildItemsState(
                [i \in 1..MaxGroceries |->
                    [id |-> groceryIds[i], storeId |-> storeId[i],
                     isDone |-> groceryIds[i] = done]])
        IN dnd' = [NoDnd EXCEPT !.hook = hook, !.items = items,
                                !.atStart = items]
    /\ UNCHANGED exceptDnd

\* handleDragStart({ active }): one of the items shown is picked up;
\* atStart and moved remember the arrangement the drag started from and
\* whether a drag-over has changed it
HandleDragStart ==
    /\ dnd.activeId = NoId
    /\ \E activeId \in {groceryIds[i] : i \in 1..MaxGroceries} :
        /\ findContainerForItem(activeId, dnd.items) # NoId
        /\ dnd' = [dnd EXCEPT
                !.activeId = activeId,
                !.clonedItems = [isNull |-> FALSE, items |-> dnd.items],
                !.overContainerId = findContainerForItem(activeId, dnd.items),
                !.event = [type |-> "start", hasOver |-> FALSE],
                !.atStart = dnd.items,
                !.moved = FALSE,
                !.reordered = FALSE]
    /\ UNCHANGED exceptDnd

\* what can be under the dragged item: nothing, a container or an item
OverIds ==
    {NoId} \cup {ContainerIds[k] : k \in 1..Len(ContainerIds)}
           \cup {groceryIds[i] : i \in 1..MaxGroceries}

HandleDragOver ==
    /\ dnd.activeId # NoId
    /\ \E overId \in OverIds, isBelowOverItem \in BOOLEAN :
        LET after == handleDragOver(dnd, overId, isBelowOverItem) IN
        dnd' = [after EXCEPT
                !.event = [type |-> "over", hasOver |-> overId # NoId],
                !.moved = dnd.moved \/ after.items # dnd.items]
    /\ UNCHANGED exceptDnd

HandleDragEnd ==
    /\ dnd.activeId # NoId
    /\ \E overId \in OverIds :
        LET after == handleDragEnd(dnd, overId) IN
        dnd' = [after EXCEPT
                !.event = [type |-> "end", hasOver |-> overId # NoId],
                !.atStart = IF overId = NoId THEN @ ELSE after.items]
    /\ UNCHANGED exceptDnd

HandleDragCancel ==
    /\ dnd.activeId # NoId
    /\ dnd' = [handleDragCancel(dnd) EXCEPT
                !.event = [type |-> "cancel", hasOver |-> FALSE]]
    /\ UNCHANGED exceptDnd

NextDnd ==
    \/ UseGroceryDnd
    \/ HandleDragStart
    \/ HandleDragOver
    \/ HandleDragEnd
    \/ HandleDragCancel

SpecDnd == Init /\ [][NextDnd]_vars

(***************************************************************************)
(* The auto-hiding navbar: useAutoHide (src/unnamed/part_000).  The        *)
(* pending timers are kept in the order they were set: all have the delay *)
(* idleDelay, so they fire in that order.  A timer set while scroll       *)
(* events are ignored after a route change cannot fire before that second *)
(* is over, idleDelay being longer.                                       *)
(***************************************************************************)
MaxTimers == 2
scrollThreshold == 2
topOffset == 50
\* the positions the page is scrolled to
ScrollPositions == {0, 60, 61, 100}

Abs(n) == IF n < 0 THEN -n ELSE n

\* clearTimeout(id): a pending timer of that id is dropped
clearTimeout(timers, id) == SelectSeq(timers, LAMBDA t : t.id # id)

\* setTimeout(callback, idleDelay): the timer is pending under an id that
\* no pending timer has
freeId(timers) ==
    CHOOSE id \in 1..(Len(timers) + 1) :
        /\ \A k \in 1..Len(timers) : timers[k].id # id
        /\ \A smaller \in 1..(id - 1) : \E k \in 1..Len(timers) : timers[k].id = smaller
setTimeout(n, kind, latest) ==
    [n EXCEPT !.timers = Append(@, [id |-> freeId(n.timers), kind |-> kind,
                                    latest |-> latest, inWindow |-> n.ignoring]),
              !.scrollTimeout = freeId(n.timers)]

\* if (scrollTimeout.current) clearTimeout(scrollTimeout.current)
clearScrollTimeout(n) ==
    IF n.scrollTimeout = NoTimer THEN n
    ELSE [n EXCEPT !.timers = clearTimeout(@, n.scrollTimeout),
                   !.scrollTimeout = StaleTimer]

\* A show that leaves the pending timer alone.
showKeepsTimer(n) ==
    IF n.disabled THEN n ELSE [n EXCEPT !.isVisible = TRUE]

\* show()
show(n) ==
    IF n.disabled THEN n
    ELSE clearScrollTimeout([n EXCEPT !.isVisible = TRUE])

\* hide()
hide(n) ==
    IF n.disabled \/ ~n.isScrollable THEN n
    ELSE IF ~n.isHovering THEN [n EXCEPT !.isVisible = FALSE]
    ELSE n

\* the handler of the change of scrollY
onScroll(n, latest) ==
    LET diff == latest - n.lastScrollY
        moved == IF Abs(diff) > scrollThreshold
                 THEN (IF diff > 0 THEN hide(n) ELSE show(n))
                 ELSE n
    IN  IF n.disabled \/ ~n.isScrollable THEN [n EXCEPT !.lastScrollY = latest]
        ELSE IF n.ignoring THEN [n EXCEPT !.lastScrollY = latest]
        ELSE IF latest < topOffset THEN [show(n) EXCEPT !.lastScrollY = latest]
        ELSE setTimeout(clearScrollTimeout([moved EXCEPT !.lastScrollY = latest]),
                        "scroll", latest)

\* checkScrollable(), on mount, on resize and every second
CheckScrollable ==
    /\ \E hasVerticalScroll \in BOOLEAN :
        /\ hasVerticalScroll # nav.isScrollable
        /\ nav' = [nav EXCEPT
                !.isScrollable = hasVerticalScroll,
                !.isVisible = IF nav.isScrollable /\ ~hasVerticalScroll
                              THEN TRUE ELSE @]
    /\ UNCHANGED exceptNav

\* the effect of a route change: the navbar is shown, the timer of the ref
\* is cleared, and scroll events are ignored for a second
RouteChange ==
    /\ LET cleared == IF nav.scrollTimeout = NoTimer THEN nav
                      ELSE [nav EXCEPT !.timers = clearTimeout(@, nav.scrollTimeout),
                                       !.scrollTimeout = NoTimer]
       IN nav' = [cleared EXCEPT
                !.isVisible = TRUE,
                !.lastScrollY = nav.scrollY,
                !.ignoring = TRUE,
                !.timers = [k \in 1..Len(cleared.timers) |->
                               [cleared.timers[k] EXCEPT !.inWindow = FALSE]]]
    /\ UNCHANGED exceptNav

\* Date.now() reaches ignoreScrollUntil
IgnoreScrollUntil ==
    /\ nav.ignoring
    /\ nav' = [nav EXCEPT
            !.ignoring = FALSE,
            !.timers = [k \in 1..Len(nav.timers) |->
                           [nav.timers[k] EXCEPT !.inWindow = FALSE]]]
    /\ UNCHANGED exceptNav

\* scrollY changes to latest
ScrollYChange ==
    /\ Len(nav.timers) < MaxTimers
    /\ \E latest \in ScrollPositions :
        /\ latest # nav.scrollY
        /\ nav' = onScroll([nav EXCEPT !.scrollY = latest], latest)
    /\ UNCHANGED exceptNav

\* the disabled option changes, and its effect runs
SetDisabled ==
    /\ nav' = IF nav.disabled THEN [nav EXCEPT !.disabled = FALSE]
              ELSE [nav EXCEPT
                      !.disabled = TRUE,
                      !.isVisible = TRUE,
                      !.timers = clearTimeout(@, nav.scrollTimeout),
                      !.scrollTimeout = NoTimer]
    /\ UNCHANGED exceptNav

OnHoverStart ==
    /\ ~nav.isHovering
    /\ nav' = show([nav EXCEPT !.isHovering = TRUE])
    /\ UNCHANGED exceptNav

\* onHoverEnd(): away from the top of a scrollable page an idle timer is
\* set, and the ref is given its id
OnHoverEnd ==
    /\ nav.isHovering
    /\ Len(nav.timers) < MaxTimers
    /\ LET n == [nav EXCEPT !.isHovering = FALSE] IN
       nav' = IF nav.scrollY > topOffset /\ nav.isScrollable
              THEN setTimeout(n, "hover", nav.scrollY)
              ELSE n
    /\ UNCHANGED exceptNav

\* the oldest pending timer fires: the timer of a scroll event hides the
\* navbar when the position of that event was beyond topOffset, the timer
\* of a hover end hides it
TimerFires ==
    /\ nav.timers # <<>>
    /\ ~(nav.ignoring /\ Head(nav.timers).inWindow)
    /\ LET t == Head(nav.timers)
           n == [nav EXCEPT !.timers = Tail(@),
                            !.scrollTimeout = IF @ = t.id THEN StaleTimer ELSE @]
       IN nav' = IF t.kind = "hover" \/ t.latest > topOffset THEN hide(n) ELSE n
    /\ UNCHANGED exceptNav

NextNavbar ==
    \/ CheckScrollable
    \/ RouteChange
    \/ IgnoreScrollUntil
    \/ ScrollYChange
    \/ SetDisabled
    \/ OnHoverStart
    \/ OnHoverEnd
    \/ TimerFires

SpecNavbar == Init /\ [][NextNavbar]_vars

(***************************************************************************)
(* Properties of the orchestrator                                          *)
(***************************************************************************)
Invoked(who) == \E i \in 1..Len(calls) : calls[i].who = who

\* AI-only mode is in effect: forced by the caller, or mandated by the
\* configuration and not overridden by the caller
AIOnlyMode ==
    \/ req.forceAI = "true"
    \/ req.forceAI = "undefined" /\ cfg.alwaysUseAI

\* the page was fetched and passed the heuristic: extraction is under way
ExtractionReached ==
    \E i \in 1..Len(calls) : calls[i].who = "heuristic" /\ calls[i].outcome = "likely"

\* what follows the i-th invocation: the next invocation, or where the call
\* stands, or the error it ended with
StepAfter(i) ==
    IF i < Len(calls) THEN calls[i + 1].who
    ELSE IF pc = "done" THEN result.error
    ELSE pc

\* the call has ended in exactly one way
EndsOneWay ==
    /\ pc = "done" => result.status \in {"returned", "threw"}
    /\ pc \notin {"done", "idle"} => result = Pending
    /\ result.status = "threw" => result.error # "" /\ result.recipe = NullRecipe
    /\ result.status = "returned" => result.error = ""

\* a returned recipe is the DTO the last invoked extraction path produced
ReturnsProducedRecipe ==
    result.status = "returned" =>
        /\ result.recipe # NullRecipe
        /\ Len(calls) > 0
        /\ calls[Len(calls)].who \in Extractors \cup {"video"}
        /\ calls[Len(calls)].outcome = "dto"
        /\ calls[Len(calls)].dto = result.recipe

\* C1 as stated: every call ends with a produced recipe or an error, never
\* with an empty result, and a non-video import whose extraction yields no
\* recipe raises "Cannot parse recipe."
C1_AsStated ==
    /\ EndsOneWay
    /\ ReturnsProducedRecipe
    /\ (pc = "done" /\ ~req.isVideo /\ ExtractionReached /\ result.status = "threw")
          => result.error = ErrCannotParse

\* C1 (amended): every call of parseRecipeFromUrl ends with a recipe some
\* extraction path produced or with an error, never with an empty result;
\* outside AI-only mode a non-video import whose structured parsers and AI
\* extraction yield no recipe raises "Cannot parse recipe.", and in AI-only
\* mode it raises "AI extraction failed" or the AI-disabled error.
C1_EndsWithRecipeOrError ==
    /\ EndsOneWay
    /\ ReturnsProducedRecipe
    /\ (pc = "done" /\ ~req.isVideo /\ ExtractionReached /\ result.status = "threw")
          => IF AIOnlyMode
               THEN result.error \in {ErrAIFailed, ErrAIDisabled}
               ELSE result.error = ErrCannotParse

C1_Witness ==
    /\ pc = "done"
    /\ ~req.isVideo
    /\ ~AIOnlyMode
    /\ Invoked("jsonld") /\ Invoked("microdata") /\ Invoked("ai_html")
    /\ result = Threw(ErrCannotParse)

\* the kinds of outcome after which an extraction path has yielded nothing
FailedOutcomes == {"none", "error", "invalid", "unnormalizable"}

\* the step that follows a failed extraction path, whatever made it fail
NextAfterFailure(who) ==
    CASE who = "jsonld" -> {"microdata", "tryExtractRecipeFromMicrodata"}
      [] who = "microdata" ->
            {"ai_jsonld", "ai_html", "tryExtractWithAI_jsonld",
             "tryExtractWithAI_html", ErrCannotParse}
      [] who = "ai_jsonld" -> {"ai_html", "tryExtractWithAI_html"}
      [] OTHER -> {ErrCannotParse}

C3_AsStated ==
    (cfg.alwaysUseAI /\ ExtractionReached) =>
        /\ ~Invoked("jsonld")
        /\ ~Invoked("microdata")

\* C3 (amended): whenever AI-only mode is in effect (forceAI is true, or
\* forceAI is not given and the configuration mandates it), an import that
\* reaches the extraction stage never invokes the JSON-LD or microdata
\* parsers and ends with an AI-produced recipe or an error; with the AI
\* disabled it ends with an error.
C3_AIOnlySkipsStructured ==
    (AIOnlyMode /\ ExtractionReached) =>
        /\ ~Invoked("jsonld")
        /\ ~Invoked("microdata")
        /\ pc = "done" =>
              \/ result.status = "threw"
              \/ /\ result.status = "returned"
                 /\ result.recipe.by = "ai"
                 /\ result.usedAI
        /\ (pc = "done" /\ ~cfg.aiEnabled) => result.status = "threw"

C3_Witness ==
    /\ pc = "done"
    /\ req.forceAI = "true"
    /\ ~cfg.alwaysUseAI
    /\ ExtractionReached
    /\ result.status = "returned"

\* C4: an import of a video url never fetches the page, never runs the
\* heuristic, the structured parsers or the HTML/JSON-LD AI extraction,
\* whatever forceAI and the configuration say; it returns the video
\* pipeline's recipe or raises an error.
C4_VideoNeverUsesHtmlPath ==
    req.isVideo =>
        /\ \A i \in 1..Len(calls) : calls[i].who = "video"
        /\ pc \in {"tryHandleVideoUrl", "processVideoRecipe", "done"}
        /\ pc = "done" =>
              \/ result.status = "threw"
              \/ /\ result.status = "returned"
                 /\ result.recipe.by = "video"
                 /\ result.recipe = calls[Len(calls)].dto

C4_Witness ==
    /\ pc = "done"
    /\ req.isVideo
    /\ req.forceAI = "true"
    /\ cfg.alwaysUseAI
    /\ Invoked("video")
    /\ result.status = "threw"

\* the fetched page has no schema marker and fewer than two content phrases
PageFailsHeuristic ==
    /\ ~html.empty
    /\ ~html.hasSchema
    /\ html.contentHits < 2

\* C5: a non-video import whose page fails the recipe-likelihood heuristic
\* is rejected with an error before any extractor is invoked.
C5_UnlikelyPageRejectedFirst ==
    PageFailsHeuristic =>
        /\ \A i \in 1..Len(calls) : calls[i].who \notin Extractors
        /\ pc \in {"isPageLikelyRecipe", "done"}
        /\ pc = "done" => result = Threw(ErrNotRecipe)

C5_Witness ==
    /\ pc = "done"
    /\ PageFailsHeuristic
    /\ html.contentHits = 1
    /\ Invoked("heuristic")
    /\ result = Threw(ErrNotRecipe)

\* a DTO without an ingredient or without a step
Partial(d) == Len(d.recipeIngredients) = 0 \/ Len(d.steps) = 0

\* C6: every result returned with usedAI = false has at least one
\* ingredient and one step; a JSON-LD or microdata DTO lacking either is
\* never returned, and the next parser or the AI fallback follows it.
C6_StructuredNeedsIngredientsAndSteps ==
    /\ (result.status = "returned" /\ ~result.usedAI) =>
          /\ Len(result.recipe.recipeIngredients) > 0
          /\ Len(result.recipe.steps) > 0
    /\ \A i \in 1..Len(calls) :
          (/\ calls[i].who \in {"jsonld", "microdata"}
           /\ calls[i].outcome = "dto"
           /\ Partial(calls[i].dto))
              => /\ result.recipe # calls[i].dto
                 /\ StepAfter(i) \in NextAfterFailure(calls[i].who)

C6_Witness ==
    /\ pc = "done"
    /\ Len(calls) = 4
    /\ calls[3].who = "jsonld" /\ calls[3].outcome = "dto"
    /\ Len(calls[3].dto.recipeIngredients) > 0 /\ Len(calls[3].dto.steps) = 0
    /\ calls[4].who = "microdata"
    /\ result.status = "returned" /\ ~result.usedAI

\* C7: the AI gets the JSON-LD fragment first whenever the page has JSON-LD
\* recipe nodes; it gets the full HTML only when there are no such nodes or
\* right after the attempt on the JSON-LD fragment produced no recipe.
C7_AIPrefersJsonLd ==
    \A i \in 1..Len(calls) :
        /\ calls[i].who = "ai_jsonld" =>
              /\ html.jsonLdNodes > 0
              /\ \A j \in 1..(i - 1) : calls[j].who \notin {"ai_jsonld", "ai_html"}
        /\ calls[i].who = "ai_html" =>
              \/ html.jsonLdNodes = 0
              \/ /\ i > 1
                 /\ calls[i - 1].who = "ai_jsonld"
                 /\ calls[i - 1].outcome # "dto"

C7_Witness ==
    /\ Len(calls) >= 2
    /\ html.jsonLdNodes > 0
    /\ calls[Len(calls) - 1].who = "ai_jsonld"
    /\ calls[Len(calls) - 1].outcome = "invalid"
    /\ calls[Len(calls)].who = "ai_html"
    /\ result.status = "returned"

C9_UsedAIRecordsThePath ==
    result.status = "returned" =>
        /\ result.recipe.by \in {"jsonld", "microdata", "ai", "video"}
        /\ ~result.usedAI <=> result.recipe.by \in {"jsonld", "microdata"}
        /\ result.usedAI <=> result.recipe.by \in {"ai", "video"}
        /\ req.isVideo => result.usedAI
        /\ calls[Len(calls)].who \in
              (CASE result.recipe.by = "jsonld" -> {"jsonld"}
                 [] result.recipe.by = "microdata" -> {"microdata"}
                 [] result.recipe.by = "ai" -> {"ai_jsonld", "ai_html"}
                 [] OTHER -> {"video"})

C9_Witness ==
    /\ pc = "done"
    /\ result.status = "returned"
    /\ result.recipe.by = "microdata"
    /\ ~result.usedAI

(***************************************************************************)
(* Properties of the DTO producers                                         *)
(***************************************************************************)
\* the order values of `list` are base, base + 1, ... in list order
DenseFrom(list, base) ==
    \A i \in 1..Len(list) : list[i].order = base + i - 1

\* C10: in every DTO either producer builds, the ingredient order values
\* are 0, 1, ..., n-1 and the step order values are 1, 2, ..., m in list
\* order, with no gaps and no repeats, also after duplicates were removed.
C10_DenseOrder ==
    (dto.by \in {"normalizeRecipeFromJson", "buildRecipeDTO"} /\ dto.error = "") =>
        /\ DenseFrom(dto.recipeIngredients, 0)
        /\ DenseFrom(dto.steps, 1)

(***************************************************************************)
(* Properties of the step parsers                                          *)
(***************************************************************************)
Called(fn) == fnCall.fn = fn

\* the string begins with the character '#'
StartsWithHash(str) == startsWith(str, "#")

\* a heading as deduplicateSteps reads one: '#' is the first character that
\* is not white space
IsHeading(str) == startsWith(trim(str), "#")

\* the entries of seq at the positions in kept, in order
KeepAt(seq, kept) ==
    LET F[i \in 0..Len(seq)] ==
            IF i = 0 THEN <<>>
            ELSE IF i \in kept THEN Append(F[i - 1], seq[i]) ELSE F[i - 1]
    IN  F[Len(seq)]

\* C11: deduplicateSteps is idempotent: for every list of step strings,
\* applying it to its own result gives that result again.
C11_DeduplicateIdempotent ==
    Called("deduplicateSteps") => deduplicateSteps(fnCall.ret) = fnCall.ret

\* a list from which something was dropped and something was kept
C11_Witness ==
    /\ Called("deduplicateSteps")
    /\ fnCall.ret # <<>>
    /\ Len(fnCall.ret) < Len(fnCall.arg)
    /\ \E i, j \in DOMAIN fnCall.arg :
          i < j /\ fnCall.arg[i] = fnCall.arg[j] /\ ~IsHeading(fnCall.arg[i])
                /\ trim(fnCall.arg[i]) # <<>>

\* C12: every input string that starts with '#' is in the output of
\* deduplicateSteps, as many times as in the input and in the same relative
\* order, also when it equals an earlier heading.
C12_HeadingsNeverRemoved ==
    Called("deduplicateSteps") =>
        SelectSeq(fnCall.ret, StartsWithHash) = SelectSeq(fnCall.arg, StartsWithHash)

\* the same heading twice, and both are in the output
C12_Witness ==
    /\ Called("deduplicateSteps")
    /\ \E i, j \in DOMAIN fnCall.arg :
          i < j /\ fnCall.arg[i] = fnCall.arg[j] /\ StartsWithHash(fnCall.arg[i])
    /\ Len(SelectSeq(fnCall.ret, StartsWithHash)) >= 2

\* C13: the output of deduplicateSteps has no two non-heading steps that
\* are equal up to case, and it is the input with some entries left out,
\* where every non-heading step that stays is the first entry of the input
\* with its text (up to case).
C13_FirstOccurrencesOnly ==
    Called("deduplicateSteps") =>
        LET in == fnCall.arg
            out == fnCall.ret
        IN  /\ \A i, j \in DOMAIN out :
                  (i < j /\ ~IsHeading(out[i]) /\ ~IsHeading(out[j]))
                      => toLowerCase(out[i]) # toLowerCase(out[j])
            /\ \E kept \in SUBSET DOMAIN in :
                  /\ out = KeepAt(in, kept)
                  /\ \A i \in kept :
                        ~IsHeading(in[i]) =>
                            \A j \in 1..(i - 1) :
                                toLowerCase(in[j]) # toLowerCase(in[i])

\* a step repeated in another case: the repeat is dropped, the first stays
C13_Witness ==
    /\ Called("deduplicateSteps")
    /\ \E i, j \in DOMAIN fnCall.arg :
          /\ i < j
          /\ fnCall.arg[i] # fnCall.arg[j]
          /\ ~IsHeading(fnCall.arg[i])
          /\ trim(fnCall.arg[i]) # <<>>
          /\ toLowerCase(fnCall.arg[i]) = toLowerCase(fnCall.arg[j])
          /\ fnCall.ret = KeepAt(fnCall.arg, DOMAIN fnCall.arg \ {j})

\* a HowToSection whose name is not blank
NamedSection(node) ==
    /\ node.kind = "object"
    /\ isSectionType(getNodeType(node))
    /\ node.name.kind = "string"
    /\ trim(node.name.str) # <<>>

\* "# " + name
HeadingOf(node) == <<"#", " ">> \o trim(decode(node.name.str))

RECURSIVE FlattenSeq(_)
FlattenSeq(ll) == IF ll = <<>> THEN <<>> ELSE Head(ll) \o FlattenSeq(Tail(ll))

\* out is what the tree under node yields, and at every place of that tree:
\* what an array yields is what its entries yield, one after the other; what
\* a named section yields is its heading and then what its children yield;
\* what any other object yields ends with what its children yield.
RECURSIVE HeadingsPrecede(_, _)
HeadingsPrecede(node, out) ==
    CASE node.kind = "array" ->
            /\ out = FlattenSeq([i \in DOMAIN node.items |-> collectSteps(node.items[i])])
            /\ \A i \in DOMAIN node.items :
                  HeadingsPrecede(node.items[i], collectSteps(node.items[i]))
      [] node.kind = "object" ->
            LET children == collectSteps(node.itemListElement) \o collectSteps(node.item)
            IN  /\ NamedSection(node) => out = <<HeadingOf(node)>> \o children
                /\ Len(out) >= Len(children)
                /\ SubSeq(out, Len(out) - Len(children) + 1, Len(out)) = children
                /\ HeadingsPrecede(node.itemListElement,
                                   collectSteps(node.itemListElement))
                /\ HeadingsPrecede(node.item, collectSteps(node.item))
      [] OTHER -> TRUE

\* C14: for every HowToSection with a non-blank name anywhere in an
\* instruction tree, collectSteps puts the heading "# " + name after the
\* strings of all that precedes the section and before every string of the
\* section's children; a section named "X" with the one child step "Y"
\* yields exactly <<"# X", "Y">>.
C14_HeadingPrecedesChildren ==
    /\ Called("collectSteps") => HeadingsPrecede(fnCall.arg, fnCall.ret)
    /\ collectSteps(HowToSection(Str(<<"X">>), Arr(<<HowToStep(<<"Y">>)>>), Absent))
          = << <<"#", " ", "X">>, <<"Y">> >>

\* steps, then a named section with children: the heading is between them
C14_Witness ==
    /\ Called("collectSteps")
    /\ fnCall.arg.kind = "array"
    /\ Len(fnCall.arg.items) = 2
    /\ collectSteps(fnCall.arg.items[1]) # <<>>
    /\ NamedSection(fnCall.arg.items[2])
    /\ Len(collectSteps(fnCall.arg.items[2])) >= 2
    /\ fnCall.ret[Len(collectSteps(fnCall.arg.items[1])) + 1]
          = HeadingOf(fnCall.arg.items[2])

\* C15 as stated: a recipeInstructions that is one bare string of several
\* lines gives one step per non-empty line, in source order, numbered from 1.
C15_AsStated ==
    (Called("parseSteps") /\ fnCall.arg.kind = "string") =>
        LET lines == splitNonEmptyLines(Str(decode(fnCall.arg.str)))
        IN  fnCall.ret = [i \in 1..Len(lines) |-> [step |-> lines[i], order |-> i]]

\* C15: a recipeInstructions that is one bare string gives one step, the
\* whole string with its entities decoded and its ends trimmed, line breaks
\* inside it kept, with order 1; a blank string gives no step.
C15_BareStringIsOneStep ==
    (Called("parseSteps") /\ fnCall.arg.kind = "string") =>
        LET whole == trim(decode(fnCall.arg.str))
        IN  fnCall.ret =
                IF whole = <<>> THEN <<>> ELSE <<[step |-> whole, order |-> 1]>>

\* a string of two lines came back as one step
C15_Witness ==
    /\ Called("parseSteps")
    /\ fnCall.arg = Str(<<"a", "\n", "b">>)
    /\ Len(fnCall.ret) = 1
    /\ fnCall.ret[1].step = <<"a", "\n", "b">>

(***************************************************************************)
(* Properties of the duration parsers                                      *)
(***************************************************************************)
\* digits and then the letter, in either case, and nothing else
IsComponent(str, letter) ==
    /\ Len(str) >= 2
    /\ toLowerCase(<<str[Len(str)]>>) = <<letter>>
    /\ \A k \in 1..(Len(str) - 1) : IsDigit(str[k])

\* the whole string is PT, then hours, minutes or both, in that order
WellFormedIso(iso) ==
    /\ Len(iso) > 2
    /\ toLowerCase(SubSeq(iso, 1, 2)) = <<"p", "t">>
    /\ \E k \in 2..Len(iso) :
          LET hours == SubSeq(iso, 3, k)
              minutes == SubSeq(iso, k + 1, Len(iso))
          IN  /\ hours = <<>> \/ IsComponent(hours, "h")
              /\ minutes = <<>> \/ IsComponent(minutes, "m")

HasPT(iso) ==
    \E i \in 1..(Len(iso) - 1) : toLowerCase(SubSeq(iso, i, i + 1)) = <<"p", "t">>

C17_HumanDurationPositiveOrUndefined ==
    Called("parseHumanDurationToMinutes") =>
        \/ fnCall.ret = Absent
        \/ fnCall.ret.kind = "number" /\ fnCall.ret.n \in Nat \ {0}

\* a duration that is written out and comes to zero minutes
C17_Witness ==
    /\ Called("parseHumanDurationToMinutes")
    /\ fnCall.arg.kind = "string"
    /\ \/ colonMatch(trim(toLowerCase(fnCall.arg.str))).matched
       \/ tokenMatch(trim(toLowerCase(fnCall.arg.str)), MinuteUnits,
                     minFollows(trim(toLowerCase(fnCall.arg.str)))).matched
    /\ humanTotal(trim(toLowerCase(fnCall.arg.str))) = 0
    /\ fnCall.ret = Absent

(***************************************************************************)
(* Properties of the ingredient parser                                     *)
(***************************************************************************)
\* the value of a numeral, in tenths
tokenValue(a) ==
    CASE a = "0" -> 0 [] a = "2" -> 20 [] a = "3" -> 30 [] OTHER -> 15

\* the token after position i and the white space that follows it
NextWord(line, i) ==
    LET rest == trimStart(SubSeq(line, i + 1, Len(line)))
    IN  IF rest = <<>> THEN "" ELSE rest[1]

\* the unit that has this spelling, written exactly so
CanonicalOf(word) ==
    CHOOSE key \in DOMAIN getUnits : word \in spellingsOf(getUnits, key)

\* the positions of the numerals that have a spelling of the dictionary
\* after them
NumberUnitAt(line) ==
    {i \in DOMAIN line :
        IsNumeral(line[i]) /\ NextWord(line, i) \in allUnits(getUnits)}

\* the same, with the spelling in any letter case
NumberUnitAnyCaseAt(line) ==
    {i \in DOMAIN line :
        /\ IsNumeral(line[i])
        /\ toLowerCase(<<NextWord(line, i)>>)[1] \in allUnits(getUnits)}

\* C18 as stated: for every ingredient line that has a number followed by
\* a spelling of the unit dictionary anywhere in it, parsing returns that
\* number's value as the quantity, with the unit's canonical ID.
C18_AsStated ==
    (Called("parseIngredientWithDefaults") /\ NumberUnitAt(fnCall.arg) # {}) =>
        /\ fnCall.ret # <<>>
        /\ \E i \in NumberUnitAt(fnCall.arg) :
              /\ fnCall.ret[1].quantity = Num(tokenValue(fnCall.arg[i]))
              /\ fnCall.ret[1].unitOfMeasureID = Id(CanonicalOf(NextWord(fnCall.arg, i)))

\* C18: for an ingredient line that does not begin with a number greater
\* than 0, and in which the first number followed by a spelling of the unit
\* dictionary (in any letter case) is greater than 0, parsing returns that
\* number's value as the quantity, and the unit's canonical ID when the
\* spelling is written as in the dictionary; for a line that begins with a
\* number greater than 0, parsing returns that leading number as the
\* quantity, whatever number and unit come later in the line.
C18_UnitInTheMiddleRecovered ==
    (Called("parseIngredientWithDefaults") /\ fnCall.arg # <<>>) =>
        LET line == fnCall.arg
            leading == IsNumeral(line[1]) /\ tokenValue(line[1]) > 0
            found == NumberUnitAnyCaseAt(line)
        IN  /\ leading =>
                /\ fnCall.ret # <<>>
                /\ fnCall.ret[1].quantity = Num(tokenValue(line[1]))
            /\ (~leading /\ found # {}) =>
                LET i == CHOOSE x \in found : \A y \in found : x <= y IN
                tokenValue(line[i]) > 0 =>
                    /\ fnCall.ret # <<>>
                    /\ fnCall.ret[1].quantity = Num(tokenValue(line[i]))
                    /\ NextWord(line, i) \in allUnits(getUnits) =>
                          fnCall.ret[1].unitOfMeasureID
                              = Id(CanonicalOf(NextWord(line, i)))

\* "Add , 2 cups": the quantity and the unit stand at the end of the line
C18_Witness ==
    /\ Called("parseIngredientWithDefaults")
    /\ fnCall.arg = <<"Add", " ", ",", " ", "2", " ", "cups">>
    /\ fnCall.ret[1].quantity = Num(20)
    /\ fnCall.ret[1].unitOfMeasureID = Id("cup")


(***************************************************************************)
(* Properties of the archive extractors                                    *)
(***************************************************************************)
\* the entry cannot be read, decompressed (Paprika) or parsed
Corrupted(fn, file) ==
    \/ file.content \in {"unreadable", "not JSON"}
    \/ fn = "extractPaprikaRecipes" /\ file.content \in {"not gzip", "not a recipe"}

\* the names of the entries of files[1..n] that are corrupted (skipped =
\* TRUE) or not (skipped = FALSE), in the order of the archive
NamesOf(fn, files, n, skipped) ==
    LET sel == SelectSeq(SubSeq(files, 1, n),
                         LAMBDA f : Corrupted(fn, f) = skipped)
    IN  [k \in 1..Len(sel) |-> sel[k].name]

\* C19: in both archive extractors a failure on one entry never aborts the
\* batch and never reaches the caller: the extractor never throws, what it
\* has collected at any point is the entries processed so far that are not
\* corrupted, in archive order, with one warning per skipped entry, and it
\* returns only when every entry has been processed.
C19_EntryFailureIsSkipped ==
    archive.status # "idle" =>
        /\ archive.status # "threw"
        /\ [k \in 1..Len(archive.results) |-> archive.results[k].recipe]
             = NamesOf(archive.fn, archive.files, archive.idx - 1, FALSE)
        /\ archive.warnings
             = NamesOf(archive.fn, archive.files, archive.idx - 1, TRUE)
        /\ archive.status = "returned" => archive.idx = Len(archive.files) + 1

\* a Paprika archive whose second of three entries is corrupted has been
\* extracted: the first and the third are returned
C19_Witness ==
    /\ archive.status = "returned"
    /\ archive.fn = "extractPaprikaRecipes"
    /\ Len(archive.files) = 3
    /\ Corrupted(archive.fn, archive.files[2])
    /\ Len(archive.results) = 2
    /\ archive.warnings = <<archive.files[2].name>>


(***************************************************************************)
(* Properties of parseVideos                                               *)
(***************************************************************************)
\* the download, the conversion or the save of the candidate fails
ProcessingFails(candidate) ==
    candidate.fate \in {"download returns null", "download throws",
                        "convert throws", "save throws",
                        "save throws after conversion"}

\* how many times downloadAndSaveVideo was called for candidate c
Attempts(c) ==
    Cardinality({k \in 1..Len(videoRun.started) : videoRun.started[k] = c})

\* candidate c is in the result
InResult(c) ==
    \E k \in 1..Len(videoRun.videos) :
        videoRun.videos[k].video = videoRun.candidates[c + 1].url

\* C20: in parseVideos a candidate whose download, conversion or save
\* fails is skipped: it is attempted at most once at any point and exactly
\* once by the time parseVideos returns, it is not in the result, no error
\* reaches the caller, and every candidate within the cap, the later ones
\* included, has been attempted once when parseVideos returns.
C20_FailedCandidateIsSkipped ==
    /\ videoRun.status # "threw"
    /\ \A c \in 0..(Len(videoRun.candidates) - 1) :
          /\ Attempts(c) <= 1
          /\ ProcessingFails(videoRun.candidates[c + 1]) => ~InResult(c)
          /\ (videoRun.status = "returned"
              /\ c < Min(Len(videoRun.candidates), videoRun.maxVideos)) =>
                 /\ Attempts(c) = 1
                 /\ ~ProcessingFails(videoRun.candidates[c + 1]) => InResult(c)

\* parseVideos has returned after a first candidate whose conversion threw
\* and a second one that was saved
C20_Witness ==
    /\ videoRun.status = "returned"
    /\ Len(videoRun.candidates) >= 2
    /\ videoRun.maxVideos >= 2
    /\ videoRun.candidates[1].fate = "convert throws"
    /\ ~ProcessingFails(videoRun.candidates[2])
    /\ Attempts(0) = 1
    /\ ~InResult(0)
    /\ InResult(1)


\* C21: the candidates are processed one after the other and capped: at
\* most one download is in progress at any moment, a download is in
\* progress only while every earlier one has settled (it is the last one
\* started), and the downloads started never exceed
\* min(number of candidates, maxVideos).
C21_SequentialAndCapped ==
    /\ Cardinality(videoRun.inProgress) <= 1
    /\ \A c \in videoRun.inProgress :
          /\ videoRun.status = "downloading"
          /\ videoRun.started[Len(videoRun.started)] = c
    /\ Len(videoRun.started) <= Min(Len(videoRun.candidates), videoRun.maxVideos)

\* parseVideos has returned with more candidates than maxVideos, after as
\* many downloads as maxVideos allows, two at least
C21_Witness ==
    /\ videoRun.status = "returned"
    /\ Len(videoRun.candidates) > videoRun.maxVideos
    /\ videoRun.maxVideos >= 2
    /\ Len(videoRun.started) = videoRun.maxVideos
    /\ videoRun.inProgress = {}

IndexOfUrl(url) ==
    CHOOSE c \in 0..(Len(videoRun.candidates) - 1) :
        videoRun.candidates[c + 1].url = url

Household ==
    {fnCall.arg.db[k] : k \in {j \in 1..Len(fnCall.arg.db) :
        \E m \in 1..Len(fnCall.arg.userIds) :
            fnCall.arg.userIds[m] = fnCall.arg.db[j].userId}}

SearchedName == normalizeIngredientName(fnCall.arg.searchName)

\* the score of a preference of the household that is a fuzzy match
ScoreOf(p) ==
    IF p.normalizedName = SearchedName THEN 0
    ELSE fnCall.arg.scoring[p.normalizedName]

\* the matches of the four priorities: exact or fuzzy, of the current user
\* or of another member
MatchesOf(exact, mine) ==
    {p \in Household :
        /\ (p.userId = fnCall.arg.currentUserId) = mine
        /\ IF exact THEN p.normalizedName = SearchedName
           ELSE ScoreOf(p) <= FUZZY_THRESHOLD}

\* the call returned a match of the kind, the best one where fuzzy
ReturnedFrom(exact, mine) ==
    /\ fnCall.ret # Null
    /\ fnCall.ret.preference \in MatchesOf(exact, mine)
    /\ fnCall.ret.isExactMatch = exact
    /\ fnCall.ret.isCurrentUser = mine
    /\ fnCall.ret.score = ScoreOf(fnCall.ret.preference)
    /\ \A p \in MatchesOf(exact, mine) : fnCall.ret.score <= ScoreOf(p)

\* C23: for a search name that is not blank, findBestIngredientStorePreference
\* returns the match of highest priority that exists in the household: the
\* current user's exact match, else another member's exact match, else the
\* current user's best fuzzy match, else another member's best fuzzy match,
\* else null.
C23_HighestPriorityMatch ==
    (Called("findBestIngredientStorePreference") /\ SearchedName # <<>>) =>
        CASE MatchesOf(TRUE, TRUE) # {} -> ReturnedFrom(TRUE, TRUE)
          [] MatchesOf(TRUE, FALSE) # {} -> ReturnedFrom(TRUE, FALSE)
          [] MatchesOf(FALSE, TRUE) # {} -> ReturnedFrom(FALSE, TRUE)
          [] MatchesOf(FALSE, FALSE) # {} -> ReturnedFrom(FALSE, FALSE)
          [] OTHER -> fnCall.ret = Null

\* another member's exact match was returned although the current user has
\* a fuzzy match
C23_Witness ==
    /\ Called("findBestIngredientStorePreference")
    /\ MatchesOf(TRUE, TRUE) = {}
    /\ MatchesOf(FALSE, TRUE) # {}
    /\ ReturnedFrom(TRUE, FALSE)


SameAs(k) ==
    {j \in 1..Len(grocery.input) :
        /\ groceryKey(grocery.input[j]) = groceryKey(grocery.input[k])
        /\ grocery.input[j].unit = grocery.input[k].unit}

\* the groceries of a table that match entry k
MatchingIn(table, k) ==
    {row \in table :
        /\ groceryKey(row) = groceryKey(grocery.input[k])
        /\ row.unit = grocery.input[k].unit}

RECURSIVE SumOfAmounts(_)
SumOfAmounts(js) ==
    IF js = {} THEN 0
    ELSE LET j == CHOOSE x \in js : TRUE
         IN  amountOr1(grocery.input[j].amount) + SumOfAmounts(js \ {j})

\* C25: duplicates inside one create request merge: when several entries
\* have the same normalized name, recipeIngredientId, recurringGroceryId
\* and unit, and no matching grocery existed before, then once the
\* background database work of the request is over exactly one grocery
\* exists for them, with the sum of their amounts (a missing amount
\* counting as 1).
C25_DuplicatesInRequestMerge ==
    (grocery.phase = "returned" /\ grocery.pending = {}) =>
        \A k \in 1..Len(grocery.input) :
            (/\ normalizeGroceryName(grocery.input[k].name) # <<>>
             /\ Cardinality(SameAs(k)) >= 2
             /\ MatchingIn(grocery.before, k) = {}) =>
                /\ Cardinality(MatchingIn(grocery.db, k)) = 1
                /\ \A row \in MatchingIn(grocery.db, k) :
                      row.amount = Num(SumOfAmounts(SameAs(k)))


(***************************************************************************)
(* Properties of the gallery images                                        *)
(***************************************************************************)
\* C26: cleanupOrphanedImages removes only files that recipes.image and
\* recipe_images.image do not name: no file that the database names at the
\* moment it is deleted is ever removed, also when a gallery upload runs
\* at the same time.
C26_CleanupKeepsReferencedFiles == images.deletedWhileReferenced = {}

\* C27: a recipe never has more than MAX_RECIPE_IMAGES gallery image
\* records, whatever the sequence or interleaving of uploadGalleryImage
\* calls, and an upload that arrives when the maximum is reached is
\* rejected without a file being saved.
C27_AtMostMaxRecipeImages ==
    /\ \A recipeId \in RecipeIds :
          countRecipeImages(images.recipeImages, recipeId) <= MAX_RECIPE_IMAGES
    /\ \A u \in 1..MaxUploads :
          images.uploads[u].pc = "rejected" => images.uploads[u].url = <<>>


(***************************************************************************)
(* Properties of the grocery drag and drop                                 *)
(***************************************************************************)
\* the ids of all containers, one after the other
AllIds(items) ==
    items[ContainerIds[1]] \o items[ContainerIds[2]]

\* C28: when a drag is cancelled or ends with no drop target, the
\* arrangement of the containers is again exactly the one that held when
\* the drag started, whatever drag-over moves happened in between, in the
\* per-item hook and in the grouped one.
C28_CancelRestoresArrangement ==
    (\/ dnd.event.type = "cancel"
     \/ dnd.event.type = "end" /\ ~dnd.event.hasOver)
    => /\ dnd.items = dnd.atStart
       /\ dnd.activeId = NoId

\* a drag of the grouped hook that moved the group to another container
\* and back and forth, and then ended over nothing
C28_Witness ==
    /\ dnd.hook = "useGroupedGroceryDnd"
    /\ dnd.event = [type |-> "end", hasOver |-> FALSE]
    /\ dnd.moved
    /\ dnd.items = dnd.atStart

C30_VisibleNearTop == nav.scrollY < topOffset => nav.isVisible

====
